---------------------------- MODULE Spec2Model ----------------------------
(***************************************************************************)
(* A model of the Arthur custom-metrics repository: the audit evidence     *)
(* export, the metric-configuration scripts and the hourly card-fraud      *)
(* dataset generator.  Every script is a sequential program; each gets its *)
(* own program counter, its own variables and its own specification.       *)
(***************************************************************************)
EXTENDS Integers, Sequences, FiniteSets, TLC

VARIABLES
    arthur,     \* audit: the Arthur-side state (alert rules, stored metrics, alerts, version)
    arthur0,    \* audit: snapshot of the Arthur-side state when the run started
    a_pc,       \* audit: position of main()
    a_args,     \* audit: the parsed command line
    a_calls,    \* audit: names of the Arthur API operations invoked so far
    a_days,     \* audit: target_days
    a_rules,    \* audit: rules returned by fetch_alert_rules
    a_di,       \* audit: index of the day being processed
    a_ri,       \* audit: index of the rule being processed
    a_rows,     \* audit: rows built so far
    a_csv,      \* audit: the rows written by write_csv (<<>> before)
    srv_specs,  \* metric config: the model's aggregation specs on the platform
    srv_specs0, \* metric config: the specs the model had when the run started
    world,      \* metric config: the model's datasets and their schemas
    c_script,   \* metric config: the script that runs
    c_old,      \* duplicate-metrics: the ids of OLD_DATASETS, in dict order
    c_mapping,  \* duplicate-metrics: DATASET_MAPPING
    c_pc,       \* metric config: position of the script
    c_model,    \* metric config: model.metric_config.aggregation_specs as read by get_model
    c_new,      \* metric config: new_aggregation_specs / aggregations_to_add
    c_all,      \* metric config: the list the script offers to apply
    c_valid,    \* duplicate-metrics: outcome of the validation of the old datasets
    c_response, \* metric config: the answer typed at the prompt
    c_puts,     \* metric config: number of put_model_metric_config calls made
    g_args,     \* card-fraud generator: arguments of the running call
    g_pc,       \* card-fraud generator: position in generate_dataset
    g_run,      \* card-fraud generator: which call of the process is running (1 or 2)
    g_np,       \* card-fraud generator: state of numpy's global generator
    g_py,       \* card-fraud generator: state of the random module's generator
    g_pools,    \* card-fraud generator: account_ids and customer_ids
    g_cur,      \* card-fraud generator: current_dt
    g_stats,    \* card-fraud generator: stats
    g_fs,       \* card-fraud generator: the files on disk, by path
    g_log,      \* card-fraud generator: the hour slots of this call, each with its
                \* path and records, in the order generated
    g_first,    \* card-fraud generator: arguments, log and result of the first call
    t_args,     \* transaction-category generator: arguments of the call
    t_pc,       \* transaction-category generator: position in generate_dataset
    t_np,       \* transaction-category generator: state of numpy's global generator
    t_py,       \* transaction-category generator: state of the random module's generator
    t_accounts, \* transaction-category generator: account_ids with account_segment
    t_cur,      \* transaction-category generator: current_dt
    t_rows,     \* transaction-category generator: rows_by_date
    t_stats,    \* transaction-category generator: stats
    t_files,    \* transaction-category generator: the Parquet files written, by path
    t_dirs,     \* transaction-category generator: the partition directories made
    d_args,     \* tabular generators: generator and arguments of the call
    d_today,    \* tabular generators: datetime.now() at midnight
    d_pc,       \* tabular generators: position in generate_dataset
    d_np,       \* tabular generators: state of numpy's global generator
    d_timestamps,\* tabular generators: timestamps
    d_df,       \* tabular generators: the DataFrame df (None before it is built)
    d_files,    \* tabular generators: the partition files written, by path
    o_cfg,      \* onboarding: the script and its configuration constants
    o_world,    \* onboarding: what the Arthur workspace holds and answers
    o_pc,       \* onboarding: position in __main__
    o_calls,    \* onboarding: the SDK calls made so far
    o_job,      \* onboarding: job.state (None before the job is submitted)
    o_polls,    \* onboarding: number of get_job calls
    o_schema,   \* onboarding: avail_dataset.dataset_schema as fetched and updated
    o_dataset,  \* onboarding: the dataset created (None before)
    x_added,    \* another client of the model: the specs it added, and where the script was
    p_script,   \* error-profile scripts: which script runs
    p_world,    \* error-profile scripts: the datasets of the model and their columns
    p_workspace,\* error-profile scripts: the custom aggregations of the workspace
    p_specs,    \* error-profile scripts: the aggregation specs of the model on the server
    p_step,     \* error-profile scripts: position in __main__ (0 when not running)
    p_pc,       \* error-profile scripts: running, done or failed
    p_agg,      \* error-profile scripts: agg_id and agg_version of this run (None before)
    p_model,    \* error-profile scripts: the model and dataset as read (None before)
    p_calls,    \* error-profile scripts: the SDK calls of this run
    p_runs      \* error-profile scripts: the agg_id of every run, this one last

auditVars == <<arthur, arthur0, a_pc, a_args, a_calls, a_days, a_rules, a_di, a_ri, a_rows, a_csv>>

configVars == <<srv_specs, srv_specs0, world, c_script, c_old, c_mapping, c_pc, c_model,
                c_new, c_all, c_valid, c_response, c_puts>>

genVars == <<g_args, g_pc, g_run, g_np, g_py, g_pools, g_cur, g_stats, g_fs, g_log, g_first>>

txnVars == <<t_args, t_pc, t_np, t_py, t_accounts, t_cur, t_rows, t_stats, t_files, t_dirs>>

tabVars == <<d_args, d_today, d_pc, d_np, d_timestamps, d_df, d_files>>

onbVars == <<o_cfg, o_world, o_pc, o_calls, o_job, o_polls, o_schema, o_dataset>>

raceVars == <<x_added>>

profVars == <<p_script, p_world, p_workspace, p_specs, p_step, p_pc, p_agg, p_model, p_calls, p_runs>>

vars == <<auditVars, configVars, genVars, txnVars, tabVars, onbVars, raceVars, profVars>>

-----------------------------------------------------------------------------
(* Generic helpers *)

\* Python's None and a present value: an optional is a sequence of length 0 or 1.
None == <<>>
Some(v) == <<v>>
IsNone(o) == o = <<>>
Val(o) == o[1]

Range(s) == {s[i] : i \in 1..Len(s)}

RECURSIVE SeqsUpTo(_, _)
SeqsUpTo(S, n) ==
    IF n = 0 THEN {<<>>}
    ELSE LET shorter == SeqsUpTo(S, n - 1)
         IN shorter \cup {Append(s, x) : s \in {t \in shorter : Len(t) = n - 1}, x \in S}

\* datetime.date and the days of the calendar.
Date(y, mo, d) == [year |-> y, month |-> mo, day |-> d]

IsLeap(y) == (y % 4 = 0 /\ y % 100 # 0) \/ y % 400 = 0

DaysInMonth(y, mo) ==
    IF mo = 2 THEN (IF IsLeap(y) THEN 29 ELSE 28)
    ELSE IF mo \in {4, 6, 9, 11} THEN 30 ELSE 31

NextDay(d) ==
    IF d.day < DaysInMonth(d.year, d.month) THEN Date(d.year, d.month, d.day + 1)
    ELSE IF d.month < 12 THEN Date(d.year, d.month + 1, 1)
    ELSE Date(d.year + 1, 1, 1)

RECURSIVE DatePlus(_, _)
DatePlus(d, n) == IF n = 0 THEN d ELSE DatePlus(NextDay(d), n - 1)

-----------------------------------------------------------------------------
(* Bounds *)

MaxDate == 3
MaxDaysList == 2
MaxRules == 2
MaxSpecs == 2
MaxOld == 2
MaxGenDays == 2
MaxTph == 2
MaxSeed == 2
NumAccounts == 2
NumCustomers == 3
MaxSamples == 4
MaxPastDays == 1
MaxFutureDays == 1
MaxPolls == 2
MaxRuns == 3

\* The days a command line may name, numbered from the first: consecutive days
\* across the end of the year 999, so that the written dates differ in length.
Dates == 1..MaxDate

AuditDate(d) == DatePlus(Date(999, 12, 30), d - 1)

\* The code points of the decimal digits of n, without leading zeros.
RECURSIVE DecimalCodes(_)
DecimalCodes(n) ==
    IF n < 10 THEN <<48 + n>> ELSE DecimalCodes(n \div 10) \o <<48 + (n % 10)>>

\* d.strftime("%Y-%m-%d") as code points: glibc writes the year without
\* padding and the month and the day with two digits.
date_strftime(d) ==
    LET c == AuditDate(d)
    IN DecimalCodes(c.year)
       \o <<45, 48 + (c.month \div 10), 48 + (c.month % 10)>>
       \o <<45, 48 + (c.day \div 10), 48 + (c.day % 10)>>

\* a <= b on strings: the order of the code points, a prefix first.
RECURSIVE StrLeq(_, _)
StrLeq(a, b) ==
    IF a = <<>> THEN TRUE
    ELSE IF b = <<>> THEN FALSE
    ELSE IF Head(a) # Head(b) THEN Head(a) < Head(b)
    ELSE StrLeq(Tail(a), Tail(b))

-----------------------------------------------------------------------------
(* scripts/arthur-audit-export.py *)

PAGE_SIZE == 1000

UPPER_BOUND == "upper_bound"
LOWER_BOUND == "lower_bound"

\* The three API operations the script invokes.
AlertRulesOp == "get_model_alert_rules"
\* A variant of the metric lookup that goes through a writing endpoint.
MetricsQueryOpWriting == "put_model_metric_config"
MetricsQueryOp == "post_model_metrics_query"
AlertsOp == "get_model_alerts"

\* Operations of the Arthur API that only read.  Anything else changes the
\* Arthur-side state.
ReadOps == {"get_model_alert_rules", "post_model_metrics_query", "get_model_alerts"}

\* The Arthur platform's side of a call: a read leaves the state as it is, any
\* other operation makes a new version of it.
ArthurApply(op, st) ==
    IF op \in ReadOps THEN st ELSE [st EXCEPT !.version = 1]

\* A cell of a query-result row: a number, or anything else (a timestamp, a string).
StrCell == [num |-> FALSE, v |-> 0]
NumCell(x) == [num |-> TRUE, v |-> x]

\* What the metrics endpoint answers for one day: an error, or result.results
\* with no row, a None row, a row with no numeric cell, or rows whose first
\* numeric cell is 4, 5 or 6.
ResultShapes ==
    << [fails |-> FALSE, results |-> <<>>],
       [fails |-> FALSE, results |-> << Some(<<StrCell, NumCell(4)>>) >>],
       [fails |-> FALSE, results |-> << Some(<<StrCell, NumCell(5)>>) >>],
       [fails |-> FALSE, results |-> << Some(<<StrCell, NumCell(6)>>) >>],
       [fails |-> TRUE,  results |-> <<>>],
       [fails |-> FALSE, results |-> << None >>],
       [fails |-> FALSE, results |-> << Some(<<NumCell(6), NumCell(4)>>) >>],
       [fails |-> FALSE, results |-> << Some(<<StrCell>>) >>] >>

\* What the alerts endpoint answers for one rule and one day: no alert, one,
\* two of which the later-listed one is the earlier in time, or an error.
AlertShapes ==
    << [fails |-> FALSE, records |-> <<>>],
       [fails |-> FALSE, records |-> << [id |-> 1, timestamp |-> 10] >>],
       [fails |-> FALSE, records |-> << [id |-> 2, timestamp |-> 20],
                                        [id |-> 3, timestamp |-> 10] >>],
       [fails |-> TRUE,  records |-> <<>>] >>

\* Alert rules as the platform may hold them for the metric (id is given by position).
RuleKinds ==
    { [threshold |-> Some(5), bound |-> Some(UPPER_BOUND), query |-> "q"],
      [threshold |-> Some(5), bound |-> Some(LOWER_BOUND), query |-> "q"],
      [threshold |-> None,    bound |-> Some(UPPER_BOUND), query |-> "q"],
      [threshold |-> Some(5), bound |-> None,              query |-> "q"],
      [threshold |-> Some(5), bound |-> Some(UPPER_BOUND), query |-> ""] }

WithIds(kinds) ==
    [i \in 1..Len(kinds) |->
        [id |-> i, threshold |-> kinds[i].threshold, bound |-> kinds[i].bound,
         query |-> kinds[i].query]]

\* The Arthur-side states a run may start from.
ArthurStates ==
    { [rules   |-> WithIds(ks),
       metrics |-> [d \in Dates |-> ResultShapes[((s + d) % Len(ResultShapes)) + 1]],
       alerts  |-> [r \in 1..Len(ks) |->
                      [d \in Dates |-> AlertShapes[((s + r + d) % Len(AlertShapes)) + 1]]],
       version |-> 0] :
      ks \in {l \in SeqsUpTo(RuleKinds, MaxRules) : Cardinality(Range(l)) = Len(l)},
      s \in 0..(Len(ResultShapes) - 1) }

\* Command lines: --days with a list, --start-date/--end-date (either may be
\* missing), both forms at once, or neither.
ArgSets ==
    { [start |-> None, end |-> None, days |-> Some(l), include_alerts |-> ia] :
        l \in (SeqsUpTo(Dates, MaxDaysList) \ {<<>>}), ia \in BOOLEAN }
    \cup
    { [start |-> s, end |-> e, days |-> None, include_alerts |-> ia] :
        s \in {None} \cup {Some(d) : d \in Dates},
        e \in {None} \cup {Some(d) : d \in Dates}, ia \in BOOLEAN }
    \cup
    { [start |-> Some(1), end |-> Some(1), days |-> Some(<<1>>), include_alerts |-> FALSE] }

\* parse_args: the date-selection validation; TRUE when parser.error is called.
ArgsRejected(args) ==
    LET has_range == ~IsNone(args.start) \/ ~IsNone(args.end)
        has_days  == ~IsNone(args.days)
    IN \/ has_range /\ has_days
       \/ ~has_range /\ ~has_days
       \/ has_range /\ (IsNone(args.start) \/ IsNone(args.end))
       \/ has_range /\ ~IsNone(args.start) /\ ~IsNone(args.end)
            /\ Val(args.start) > Val(args.end)

\* dates_in_range: every date from start through end inclusive.
dates_in_range(start, end) ==
    LET delta == end - start
    IN IF delta < 0 THEN "ValueError"
       ELSE [i \in 1..(delta + 1) |-> start + (i - 1)]

\* sorted(set(l)): the distinct elements in ascending order.
RECURSIVE SortedSet(_)
SortedSet(S) ==
    IF S = {} THEN <<>>
    ELSE LET m == CHOOSE x \in S : \A y \in S : x <= y
         IN <<m>> \o SortedSet(S \ {m})

\* A variant of the date resolution that keeps the --days list as given.
TargetDaysAsGiven(args) ==
    IF ~IsNone(args.days) /\ Val(args.days) # <<>>
    THEN Val(args.days)
    ELSE dates_in_range(Val(args.start), Val(args.end))

\* main: resolve the set of dates to export.
TargetDays(args) ==
    IF ~IsNone(args.days) /\ Val(args.days) # <<>>
    THEN SortedSet(Range(Val(args.days)))
    ELSE dates_in_range(Val(args.start), Val(args.end))

\* One page of a listing endpoint.
Page(list, page, size) ==
    SubSeq(list, (page - 1) * size + 1,
           IF page * size < Len(list) THEN page * size ELSE Len(list))

\* The paging loop of fetch_alert_rules and fetch_alerts_for_day: pages are
\* fetched until one comes back shorter than PAGE_SIZE.
RECURSIVE FetchPages(_, _)
FetchPages(list, page) ==
    LET records == Page(list, page, PAGE_SIZE)
    IN IF Len(records) < PAGE_SIZE THEN records
       ELSE records \o FetchPages(list, page + 1)

fetch_alert_rules(st) == FetchPages(st.rules, 1)

\* The first numeric cell of a result row, None when there is none.
RECURSIVE FirstNumeric(_)
FirstNumeric(row) ==
    IF row = <<>> THEN None
    ELSE IF Head(row).num THEN Some(Head(row).v)
    ELSE FirstNumeric(Tail(row))

\* fetch_metric_value_for_day: a failed query, an empty result, a None row and
\* a row without a number all give None.
fetch_metric_value_for_day(st, d) ==
    IF st.metrics[d].fails THEN None
    ELSE LET results == st.metrics[d].results
         IN IF results = <<>> THEN None
            ELSE IF IsNone(results[1]) THEN None
            ELSE FirstNumeric(Val(results[1]))

fetch_alerts_for_day(st, rule_id, d) == FetchPages(st.alerts[rule_id][d].records, 1)

bound_to_operator(bound) == IF bound = UPPER_BOUND THEN ">" ELSE "<"

\* A variant of the comparison that counts a value on the threshold as a violation.
threshold_violated_inclusive(value, threshold, bound) ==
    IF bound = UPPER_BOUND THEN value >= threshold ELSE value <= threshold

threshold_violated(value, threshold, bound) ==
    IF bound = UPPER_BOUND THEN value > threshold ELSE value < threshold

\* str(b).lower() of an optional boolean, "" for None.
BoolCell(ob) == IF IsNone(ob) THEN "" ELSE IF Val(ob) THEN "true" ELSE "false"

\* min(fired_alerts, key=timestamp): the first alert with the least timestamp.
FirstAlert(fired) ==
    LET i == CHOOSE k \in 1..Len(fired) :
                /\ \A j \in 1..Len(fired) : fired[k].timestamp <= fired[j].timestamp
                /\ \A j \in 1..(k - 1) : fired[j].timestamp > fired[k].timestamp
    IN fired[i]

\* The body of the rule loop of build_evidence_rows: the row for day d and
\* rule orule (None when the model has no rule), given the metric value and the
\* alerts that were looked up (None when no lookup was made).  ghost_rule is
\* not a CSV column: it records which rule the row was built for.
EvidenceRow(d, orule, metric_value, ofired) ==
    LET threshold == IF IsNone(orule) THEN None ELSE Val(orule).threshold
        bound     == IF IsNone(orule) THEN None ELSE Val(orule).bound
        operator  == IF IsNone(bound) THEN None ELSE Some(bound_to_operator(Val(bound)))
        derived   == ~IsNone(metric_value) /\ ~IsNone(threshold) /\ ~IsNone(bound)
        violated  == threshold_violated(Val(metric_value), Val(threshold), Val(bound))
        control_pass   == IF derived THEN Some(~violated) ELSE None
        alert_expected == IF derived THEN Some(violated) ELSE None
        alert_fired == IF IsNone(ofired) THEN None ELSE Some(Len(Val(ofired)) > 0)
        first_alert == IF IsNone(ofired) \/ Val(ofired) = <<>> THEN None
                       ELSE Some(FirstAlert(Val(ofired)))
    IN [date               |-> date_strftime(d),
        metric_value       |-> metric_value,
        threshold          |-> threshold,
        threshold_operator |-> IF IsNone(operator) THEN "" ELSE Val(operator),
        control_pass       |-> BoolCell(control_pass),
        alert_expected     |-> BoolCell(alert_expected),
        alert_fired        |-> BoolCell(alert_fired),
        alert_id           |-> IF IsNone(first_alert) THEN None ELSE Some(Val(first_alert).id),
        alert_timestamp    |-> IF IsNone(first_alert) THEN None
                               ELSE Some(Val(first_alert).timestamp),
        ghost_rule         |-> IF IsNone(orule) THEN None ELSE Some(Val(orule).id)]

\* rows.sort(key=(date, metric_name)): a stable sort; metric_name is the same
\* in every row, so the date decides, compared as the string it was written as.
RECURSIVE InsertByDate(_, _)
InsertByDate(sorted, r) ==
    IF sorted = <<>> THEN <<r>>
    ELSE IF StrLeq(Head(sorted).date, r.date) THEN <<Head(sorted)>> \o InsertByDate(Tail(sorted), r)
    ELSE <<r>> \o sorted

RECURSIVE SortRows(_)
SortRows(rows) ==
    IF rows = <<>> THEN <<>>
    ELSE InsertByDate(SortRows(SubSeq(rows, 1, Len(rows) - 1)), rows[Len(rows)])

\* target_rules = rules if rules else [None]
TargetRules(rules) ==
    IF rules = <<>> THEN << None >> ELSE [i \in 1..Len(rules) |-> Some(rules[i])]

\* The variables of the other programs while this one runs.
ConfigIdle ==
    /\ srv_specs = <<>>
    /\ srv_specs0 = <<>>
    /\ world = [datasets |-> <<>>]
    /\ c_script = "none"
    /\ c_old = <<>>
    /\ c_mapping = <<>>
    /\ c_pc = "idle"
    /\ c_model = <<>>
    /\ c_new = <<>>
    /\ c_all = <<>>
    /\ c_valid = TRUE
    /\ c_response = <<>>
    /\ c_puts = 0

GenIdle ==
    /\ g_args = <<>>
    /\ g_pc = "idle"
    /\ g_run = 0
    /\ g_np = 0
    /\ g_py = 0
    /\ g_pools = <<>>
    /\ g_cur = <<>>
    /\ g_stats = <<>>
    /\ g_fs = <<>>
    /\ g_log = <<>>
    /\ g_first = <<>>

TxnIdle ==
    /\ t_args = <<>>
    /\ t_pc = "idle"
    /\ t_np = 0
    /\ t_py = 0
    /\ t_accounts = <<>>
    /\ t_cur = <<>>
    /\ t_rows = <<>>
    /\ t_stats = <<>>
    /\ t_files = <<>>
    /\ t_dirs = {}

TabIdle ==
    /\ d_args = <<>>
    /\ d_today = <<>>
    /\ d_pc = "idle"
    /\ d_np = 0
    /\ d_timestamps = <<>>
    /\ d_df = <<>>
    /\ d_files = <<>>

OnbIdle ==
    /\ o_cfg = <<>>
    /\ o_world = <<>>
    /\ o_pc = "idle"
    /\ o_calls = <<>>
    /\ o_job = <<>>
    /\ o_polls = 0
    /\ o_schema = <<>>
    /\ o_dataset = <<>>

RaceIdle ==
    /\ x_added = <<>>

ProfIdle ==
    /\ p_script = ""
    /\ p_world = <<>>
    /\ p_workspace = <<>>
    /\ p_specs = <<>>
    /\ p_step = 0
    /\ p_pc = "idle"
    /\ p_agg = <<>>
    /\ p_model = <<>>
    /\ p_calls = <<>>
    /\ p_runs = <<>>

AuditIdle ==
    /\ arthur = [version |-> 0]
    /\ arthur0 = arthur
    /\ a_pc = "idle"
    /\ a_args = [include_alerts |-> FALSE]
    /\ a_calls = {}
    /\ a_days = <<>>
    /\ a_rules = <<>>
    /\ a_di = 1
    /\ a_ri = 1
    /\ a_rows = <<>>
    /\ a_csv = None

AuditInit ==
    /\ arthur \in ArthurStates
    /\ arthur0 = arthur
    /\ a_pc = "parse_args"
    /\ a_args \in ArgSets
    /\ a_calls = {}
    /\ a_days = <<>>
    /\ a_rules = <<>>
    /\ a_di = 1
    /\ a_ri = 1
    /\ a_rows = <<>>
    /\ a_csv = None
    /\ ConfigIdle
    /\ GenIdle
    /\ TxnIdle
    /\ TabIdle
    /\ OnbIdle
    /\ RaceIdle
    /\ ProfIdle

\* main: parse_args and the resolution of target_days.
AuditParseArgs ==
    /\ a_pc = "parse_args"
    /\ IF ArgsRejected(a_args)
       THEN a_pc' = "usage_error" /\ UNCHANGED a_days
       ELSE a_pc' = "authenticate" /\ a_days' = TargetDays(a_args)
    /\ UNCHANGED <<arthur, arthur0, a_args, a_calls, a_rules, a_di, a_ri, a_rows, a_csv>>

\* build_api_client: authentication succeeds or ends the run.
AuditAuthenticate ==
    /\ a_pc = "authenticate"
    /\ \E ok \in BOOLEAN : a_pc' = IF ok THEN "fetch_rules" ELSE "failed"
    /\ UNCHANGED <<arthur, arthur0, a_args, a_calls, a_days, a_rules, a_di, a_ri, a_rows, a_csv>>

\* main: fetch_alert_rules; an API error ends the run.
AuditFetchRules ==
    /\ a_pc = "fetch_rules"
    /\ a_calls' = a_calls \cup {AlertRulesOp}
    /\ arthur' = ArthurApply(AlertRulesOp, arthur)
    /\ \E ok \in BOOLEAN :
         IF ok THEN a_rules' = fetch_alert_rules(arthur) /\ a_pc' = "build_rows"
         ELSE a_pc' = "failed" /\ UNCHANGED a_rules
    /\ UNCHANGED <<arthur0, a_args, a_days, a_di, a_ri, a_rows, a_csv>>

\* build_evidence_rows: one pass of the rule loop for the current day; the
\* pass that ends the loops also sorts the rows and returns them.
AuditBuildRow ==
    /\ a_pc = "build_rows"
    /\ LET d      == a_days[a_di]
           target == TargetRules(a_rules)
           orule  == target[a_ri]
           hasq   == ~IsNone(orule) /\ Val(orule).query # ""
           look   == a_args.include_alerts /\ ~IsNone(orule)
           afterq == IF hasq THEN ArthurApply(MetricsQueryOp, arthur) ELSE arthur
           last   == a_di = Len(a_days) /\ a_ri = Len(target)
           aok    == ~look \/ ~arthur.alerts[Val(orule).id][d].fails
       IN   /\ a_calls' = a_calls \cup (IF hasq THEN {MetricsQueryOp} ELSE {})
                                   \cup (IF look THEN {AlertsOp} ELSE {})
            /\ arthur' = IF look THEN ArthurApply(AlertsOp, afterq) ELSE afterq
            /\ IF ~aok
               THEN a_pc' = "failed" /\ UNCHANGED <<a_rows, a_di, a_ri>>
               ELSE LET mv  == IF hasq THEN fetch_metric_value_for_day(arthur, d)
                               ELSE None
                        ofr == IF look THEN Some(fetch_alerts_for_day(afterq, Val(orule).id, d))
                               ELSE None
                        row == EvidenceRow(d, orule, mv, ofr)
                    IN /\ a_rows' = IF last THEN SortRows(Append(a_rows, row))
                                    ELSE Append(a_rows, row)
                       /\ a_pc' = IF last THEN "write_csv" ELSE "build_rows"
                       /\ a_ri' = IF a_ri = Len(target) THEN 1 ELSE a_ri + 1
                       /\ a_di' = IF a_ri = Len(target) /\ ~last THEN a_di + 1 ELSE a_di
    /\ UNCHANGED <<arthur0, a_args, a_days, a_rules, a_csv>>

\* write_csv: the rows reach the output file, or the write fails.
AuditWriteCsv ==
    /\ a_pc = "write_csv"
    /\ \E ok \in BOOLEAN :
         IF ok THEN a_csv' = Some(a_rows) /\ a_pc' = "done"
         ELSE a_pc' = "failed" /\ UNCHANGED a_csv
    /\ UNCHANGED <<arthur, arthur0, a_args, a_calls, a_days, a_rules, a_di, a_ri, a_rows>>

AuditNext ==
    \/ AuditParseArgs /\ UNCHANGED <<configVars, genVars, txnVars, tabVars, onbVars, raceVars, profVars>>
    \/ AuditAuthenticate /\ UNCHANGED <<configVars, genVars, txnVars, tabVars, onbVars, raceVars, profVars>>
    \/ AuditFetchRules /\ UNCHANGED <<configVars, genVars, txnVars, tabVars, onbVars, raceVars, profVars>>
    \/ AuditBuildRow /\ UNCHANGED <<configVars, genVars, txnVars, tabVars, onbVars, raceVars, profVars>>
    \/ AuditWriteCsv /\ UNCHANGED <<configVars, genVars, txnVars, tabVars, onbVars, raceVars, profVars>>

SpecAudit == AuditInit /\ [][AuditNext]_vars

-----------------------------------------------------------------------------
(* Properties of the audit export *)

\* The rows the export holds: those built so far, and those written.
AuditRows == Range(a_rows) \cup (IF IsNone(a_csv) THEN {} ELSE Range(Val(a_csv)))

\* C1: at every point of a run of the audit export, whether it ends well or
\* fails, every Arthur API operation invoked so far is one of the three reads,
\* and the Arthur-side state equals the state the run started from.
C1_AuditReadOnly ==
    /\ a_calls \subseteq ReadOps
    /\ arthur = arthur0

\* A run that failed in an alert lookup after invoking all three operations.
C1_Witness ==
    /\ a_pc = "failed"
    /\ a_rows # <<>>
    /\ a_calls = {"get_model_alert_rules", "post_model_metrics_query", "get_model_alerts"}

\* C2: in every row whose metric value, threshold and operator columns are
\* filled, alert_expected is "true" exactly when the value is strictly above
\* the threshold (operator ">") or strictly below it (operator "<"), and
\* control_pass is the negation of alert_expected; in every other row both
\* columns are empty.
C2_PassIsStrictComparison ==
    \A r \in AuditRows :
        IF ~IsNone(r.metric_value) /\ ~IsNone(r.threshold) /\ r.threshold_operator # ""
        THEN LET v == Val(r.metric_value)
                 t == Val(r.threshold)
                 crossed == \/ r.threshold_operator = ">" /\ v > t
                            \/ r.threshold_operator = "<" /\ v < t
             IN /\ r.alert_expected = (IF crossed THEN "true" ELSE "false")
                /\ r.control_pass = (IF crossed THEN "false" ELSE "true")
        ELSE r.alert_expected = "" /\ r.control_pass = ""

\* A written export with a row whose value equals its threshold (which passes),
\* a row whose value crosses it, and a row with a missing value.
C2_Witness ==
    /\ a_pc = "done"
    /\ \E r \in Range(Val(a_csv)) :
          /\ r.metric_value = r.threshold /\ ~IsNone(r.threshold)
          /\ r.threshold_operator # "" /\ r.control_pass = "true"
    /\ \E r \in Range(Val(a_csv)) : r.alert_expected = "true"
    /\ \E r \in Range(Val(a_csv)) : IsNone(r.metric_value) /\ ~IsNone(r.threshold)

\* The days the command line asks for: the distinct --days, or every date from
\* --start-date through --end-date.
RequestedDays ==
    IF ~IsNone(a_args.days) THEN Range(Val(a_args.days))
    ELSE {d \in Dates : Val(a_args.start) <= d /\ d <= Val(a_args.end)}

RowsFor(rows, d, orid) ==
    {i \in 1..Len(rows) : rows[i].date = date_strftime(d) /\ rows[i].ghost_rule = orid}

\* C3: the written export holds exactly one row for every pair of a requested
\* day and a matching alert rule, or, when no rule matches, exactly one row per
\* requested day with empty threshold, operator, control_pass, alert_expected
\* and alert columns; it holds nothing else, so its length is
\* (number of distinct days) x max(1, number of rules).
C3_OneRowPerDayAndRule ==
    a_pc = "done" =>
        LET rows   == Val(a_csv)
            nrules == Len(arthur0.rules)
        IN /\ \A i \in 1..Len(rows) : rows[i].date \in {date_strftime(d) : d \in RequestedDays}
           /\ IF nrules = 0
              THEN \A d \in RequestedDays :
                     /\ Cardinality(RowsFor(rows, d, None)) = 1
                     /\ \A i \in RowsFor(rows, d, None) :
                          /\ IsNone(rows[i].threshold)
                          /\ rows[i].threshold_operator = ""
                          /\ rows[i].control_pass = ""
                          /\ rows[i].alert_expected = ""
                          /\ rows[i].alert_fired = ""
                          /\ IsNone(rows[i].alert_id)
                          /\ IsNone(rows[i].alert_timestamp)
              ELSE \A d \in RequestedDays : \A k \in 1..nrules :
                     Cardinality(RowsFor(rows, d, Some(arthur0.rules[k].id))) = 1
           /\ Len(rows) = Cardinality(RequestedDays) * (IF nrules = 0 THEN 1 ELSE nrules)

\* A written export for a --days list that names a day twice next to another
\* day, with two rules.
C3_Witness ==
    /\ a_pc = "done"
    /\ ~IsNone(a_args.days)
    /\ Len(Val(a_args.days)) > Cardinality(Range(Val(a_args.days)))
    /\ Len(arthur0.rules) = 2
    /\ Len(Val(a_csv)) = 2

\* A written export for a date range of several days and no rule.
C3_WitnessNoRule ==
    /\ a_pc = "done"
    /\ IsNone(a_args.days)
    /\ Cardinality(RequestedDays) > 1
    /\ arthur0.rules = <<>>

-----------------------------------------------------------------------------
(* The metric-configuration scripts: aggregation specs, datasets, columns *)

\* An argument of an aggregation spec: a single value or a list of values.
Arg(k, v) == [arg_key |-> k, arg_value |-> [list |-> FALSE, items |-> <<v>>]]
ArgL(k, l) == [arg_key |-> k, arg_value |-> [list |-> TRUE, items |-> l]]

AggSpec(id, kind, version, args) ==
    [aggregation_id |-> id, aggregation_kind |-> kind, aggregation_version |-> version,
     aggregation_args |-> args]

\* A built-in aggregation, as the scripts construct it.
Builtin(id, args) == AggSpec(id, "", "", args)

Col(id, name) == [id |-> id, source_name |-> name]

\* Ids the platform issues are UUIDs: dataset ids, column ids, and one id ("u9")
\* that is neither.  Labels and thresholds are not UUIDs.
DatasetIds == {"D1", "D2", "D3"}
Uuids == DatasetIds \cup {"a1", "b1", "a2", "b2", "a3", "u9"}

is_uuid(v) == v \in Uuids

\* any(arg.arg_key == "dataset" and arg.arg_value == id ...) for an id of ids:
\* whether a spec carries the argument dataset = id; a list equals no id.
RefersToDataset(agg, ids) ==
    \E i \in 1..Len(agg.aggregation_args) :
        /\ agg.aggregation_args[i].arg_key = "dataset"
        /\ ~agg.aggregation_args[i].arg_value.list
        /\ agg.aggregation_args[i].arg_value.items[1] \in ids

RECURSIVE SelectSpecs(_, _)
SelectSpecs(specs, ids) ==
    IF specs = <<>> THEN <<>>
    ELSE (IF RefersToDataset(Head(specs), ids) THEN <<Head(specs)>> ELSE <<>>)
         \o SelectSpecs(Tail(specs), ids)

\* any(arg.arg_key == "dataset" and arg.arg_value in ids ...) for a set ids,
\* over the arguments in order: "True" at the first dataset argument of ids,
\* "TypeError" when the test reaches a list-valued dataset argument first (a
\* list cannot be hashed), "False" otherwise.
RECURSIVE AnyDatasetIn(_, _)
AnyDatasetIn(args, ids) ==
    IF args = <<>> THEN "False"
    ELSE IF Head(args).arg_key # "dataset" THEN AnyDatasetIn(Tail(args), ids)
    ELSE IF Head(args).arg_value.list THEN "TypeError"
    ELSE IF Head(args).arg_value.items[1] \in ids THEN "True"
    ELSE AnyDatasetIn(Tail(args), ids)

\* [agg for agg in specs if any(... arg.arg_value in ids ...)]: the list, or
\* None when the test raises.
RECURSIVE old_aggs(_, _)
old_aggs(specs, ids) ==
    IF specs = <<>> THEN Some(<<>>)
    ELSE LET t == AnyDatasetIn(Head(specs).aggregation_args, ids)
         IN IF t = "TypeError" THEN None
            ELSE LET rest == old_aggs(Tail(specs), ids)
                 IN IF IsNone(rest) THEN None
                    ELSE Some((IF t = "True" THEN <<Head(specs)>> ELSE <<>>) \o Val(rest))

\* [agg for agg in specs if not any(... arg.arg_value in ids ...)]: the list,
\* or None when the test raises.
RECURSIVE RejectSpecs(_, _)
RejectSpecs(specs, ids) ==
    IF specs = <<>> THEN Some(<<>>)
    ELSE LET t == AnyDatasetIn(Head(specs).aggregation_args, ids)
         IN IF t = "TypeError" THEN None
            ELSE LET rest == RejectSpecs(Tail(specs), ids)
                 IN IF IsNone(rest) THEN None
                    ELSE Some((IF t = "True" THEN <<>> ELSE <<Head(specs)>>) \o Val(rest))

-----------------------------------------------------------------------------
(* scripts/onboarding/duplicate-metrics-to-new-datasets.py *)

\* new_col_map: source_name -> id over the new dataset's columns; of two columns
\* with one name the later one stays.
NewColId(new_cols, name) ==
    LET i == CHOOSE k \in 1..Len(new_cols) :
                /\ new_cols[k].source_name = name
                /\ \A j \in (k + 1)..Len(new_cols) : new_cols[j].source_name # name
    IN new_cols[i].id

NewColNames(new_cols) == {new_cols[k].source_name : k \in 1..Len(new_cols)}

\* get_column_mapping: (column_mapping, removed_columns).  Of two old columns
\* with one id the later one that the new dataset has decides the entry.
get_column_mapping(old_cols, new_cols) ==
    LET kept == {k \in 1..Len(old_cols) : old_cols[k].source_name \in NewColNames(new_cols)}
        last(id) == CHOOSE k \in kept :
                       /\ old_cols[k].id = id
                       /\ \A j \in kept : old_cols[j].id = id => j <= k
    IN [mapping |-> [id \in {old_cols[k].id : k \in kept} |->
                        NewColId(new_cols, old_cols[last(id)].source_name)],
        removed |-> {old_cols[k].id : k \in (1..Len(old_cols)) \ kept}]

\* The segmentation branch of map_aggregation_spec: the list with every mapped
\* column id replaced.
MapItems(items, mapping) ==
    [i \in 1..Len(items) |->
        IF is_uuid(items[i]) /\ items[i] \in DOMAIN mapping THEN mapping[items[i]]
        ELSE items[i]]

\* A variant that gives every list-valued argument the handling of the
\* segmentation list.
IsColumnListAnyKey(arg) == arg.arg_value.list

\* map_aggregation_spec: the arguments that take the list branch.
IsColumnList(arg) == arg.arg_key = "segmentation" /\ arg.arg_value.list

\* map_aggregation_spec: whether the loop over the arguments returns None at arg.
ArgSkips(arg, old_dataset_id, removed) ==
    IF arg.arg_key = "dataset" /\ ~arg.arg_value.list
       /\ arg.arg_value.items[1] = old_dataset_id
    THEN FALSE
    ELSE IF IsColumnList(arg)
    THEN \E i \in 1..Len(arg.arg_value.items) :
            is_uuid(arg.arg_value.items[i]) /\ arg.arg_value.items[i] \in removed
    ELSE /\ ~arg.arg_value.list
         /\ is_uuid(arg.arg_value.items[1])
         /\ arg.arg_value.items[1] \in removed

\* map_aggregation_spec: the new value of one argument.
MapArg(arg, old_dataset_id, new_dataset_id, mapping) ==
    IF arg.arg_key = "dataset" /\ ~arg.arg_value.list
       /\ arg.arg_value.items[1] = old_dataset_id
    THEN Arg(arg.arg_key, new_dataset_id)
    ELSE IF IsColumnList(arg)
    THEN ArgL(arg.arg_key, MapItems(arg.arg_value.items, mapping))
    ELSE IF ~arg.arg_value.list /\ is_uuid(arg.arg_value.items[1])
            /\ arg.arg_value.items[1] \in DOMAIN mapping
    THEN Arg(arg.arg_key, mapping[arg.arg_value.items[1]])
    ELSE arg

\* map_aggregation_spec: None when an argument references a removed column,
\* else the spec with the dataset id and the column ids swapped.
map_aggregation_spec(agg, old_dataset_id, new_dataset_id, mapping, removed) ==
    IF \E i \in 1..Len(agg.aggregation_args) :
          ArgSkips(agg.aggregation_args[i], old_dataset_id, removed)
    THEN None
    ELSE Some(AggSpec(agg.aggregation_id, agg.aggregation_kind, agg.aggregation_version,
                      [i \in 1..Len(agg.aggregation_args) |->
                         MapArg(agg.aggregation_args[i], old_dataset_id, new_dataset_id,
                                mapping)]))

\* dataset_map: the datasets of the model, by id.
DatasetMapIds(w) == Range(w.datasets)

\* The body of the loop over OLD_DATASETS for one old dataset: the specs it adds
\* to new_aggregation_specs.
RECURSIVE MapAll(_, _, _, _, _)
MapAll(specs, old_id, new_id, mapping, removed) ==
    IF specs = <<>> THEN <<>>
    ELSE map_aggregation_spec(Head(specs), old_id, new_id, mapping, removed)
         \o MapAll(Tail(specs), old_id, new_id, mapping, removed)

CopiesFor(w, model_specs, mapping_cfg, old_id) ==
    IF old_id \notin DatasetMapIds(w) THEN <<>>
    ELSE IF old_id \notin DOMAIN mapping_cfg THEN <<>>
    ELSE IF mapping_cfg[old_id] \notin DatasetMapIds(w) THEN <<>>
    ELSE LET new_id == mapping_cfg[old_id]
             cm     == get_column_mapping(w.schema[old_id], w.schema[new_id])
         IN MapAll(SelectSpecs(model_specs, {old_id}), old_id, new_id,
                   cm.mapping, cm.removed)

\* The loop over OLD_DATASETS.
RECURSIVE NewAggregationSpecs(_, _, _, _)
NewAggregationSpecs(w, model_specs, mapping_cfg, old_ids) ==
    IF old_ids = <<>> THEN <<>>
    ELSE CopiesFor(w, model_specs, mapping_cfg, Head(old_ids))
         \o NewAggregationSpecs(w, model_specs, mapping_cfg, Tail(old_ids))

MappingValues(mapping_cfg) == {mapping_cfg[k] : k \in DOMAIN mapping_cfg}

\* A variant that retains the specs of every dataset, the new ones included.
RetainedKeepAll(model_specs, mapping_cfg) == Some(model_specs)

\* retained_aggregation_specs: the specs that reference no new dataset, or None
\* when the test of a list-valued dataset argument raises TypeError.
Retained(model_specs, mapping_cfg) == RejectSpecs(model_specs, MappingValues(mapping_cfg))

\* The validation: the specs of the old datasets in the original list and in
\* the final list, compared; None when one of the two comprehensions raises.
ValidationPassed(model_specs, all_specs, old_ids) ==
    LET original_old_aggs == old_aggs(model_specs, Range(old_ids))
        final_old_aggs    == old_aggs(all_specs, Range(old_ids))
    IN IF IsNone(original_old_aggs) \/ IsNone(final_old_aggs) THEN None
       ELSE Some(Val(original_old_aggs) = Val(final_old_aggs))

-----------------------------------------------------------------------------
(* script automation/onboarding/add-custom-aggregations.py,                 *)
(* script automation/onboarding/add-fraud-model-aggregations.py,            *)
(* scripts/onboarding/add-regression-model-aggregations.py                  *)

HasCol(cols, name) == \E k \in 1..Len(cols) : cols[k].source_name = name

\* column_id_from_col_name: the id of the first column with that name (the
\* callers test HasCol first; a missing column is a ValueError).
column_id_from_col_name(cols, name) ==
    LET i == CHOOSE k \in 1..Len(cols) :
                /\ cols[k].source_name = name
                /\ \A j \in 1..(k - 1) : cols[j].source_name # name
    IN cols[i].id

\* The ids of those of the named columns that the dataset has, in the order named.
RECURSIVE PresentColIds(_, _)
PresentColIds(cols, names) ==
    IF names = <<>> THEN <<>>
    ELSE (IF HasCol(cols, Head(names)) THEN <<column_id_from_col_name(cols, Head(names))>>
          ELSE <<>>)
         \o PresentColIds(cols, Tail(names))

\* One built-in aggregation over dataset/timestamp and one column, per column id.
PerColumn(agg_id, ds, ts, key, ids) ==
    [i \in 1..Len(ids) |->
        Builtin(agg_id, <<Arg("dataset", ds), Arg("timestamp_col", ts), Arg(key, ids[i])>>)]

\* gen_custom_aggregations: None stands for the ValueError of a missing
\* timestamp column.
gen_custom_aggregations(ds, cols) ==
    IF ~HasCol(cols, "timestamp") THEN None
    ELSE LET ts   == column_id_from_col_name(cols, "timestamp")
             pred == PresentColIds(cols, <<"prediction">>)
             conf == PresentColIds(cols, <<"confidence_score">>)
         IN Some(
              <<Builtin("0a", <<Arg("dataset", ds), Arg("timestamp_col", ts)>>)>>
              \o PerColumn("0b", ds, ts, "nullable_col", [k \in 1..Len(cols) |-> cols[k].id])
              \o PerColumn("0d", ds, ts, "numeric_col", pred)
              \o PerColumn("0f", ds, ts, "numeric_col", pred)
              \o PerColumn("0d", ds, ts, "numeric_col", conf)
              \o [i \in 1..Len(pred) |->
                    Builtin("20", <<Arg("dataset", ds), Arg("timestamp_col", ts),
                                    Arg("prediction_col", pred[i]), Arg("threshold", "0.5"),
                                    Arg("true_label", "POSITIVE"),
                                    Arg("false_label", "NEGATIVE")>>)])

FraudRequired ==
    <<"timestamp", "fraud_pred", "is_fraud", "distance_from_home_km", "tenure_months",
      "customer_segment", "channel", "region", "risk_rank">>

\* gen_fraud_model_aggregations: None stands for the ValueError of a missing
\* required column.
gen_fraud_model_aggregations(ds, cols) ==
    IF \E k \in 1..Len(FraudRequired) : ~HasCol(cols, FraudRequired[k]) THEN None
    ELSE LET id(n) == column_id_from_col_name(cols, n)
             ts    == id("timestamp")
             numeric_cols ==
                 <<id("fraud_pred"), id("is_fraud"), id("distance_from_home_km"),
                   id("tenure_months")>>
                 \o PresentColIds(cols, <<"transaction_amount", "merchant_risk_score">>)
             categorical_cols ==
                 <<id("customer_segment"), id("channel"), id("region"), id("risk_rank")>>
         IN Some(
              <<Builtin("0a", <<Arg("dataset", ds), Arg("timestamp_col", ts)>>)>>
              \o PerColumn("0f", ds, ts, "numeric_col", <<id("fraud_pred"), id("is_fraud")>>)
              \o PerColumn("0d", ds, ts, "numeric_col", numeric_cols)
              \o PerColumn("0c", ds, ts, "categorical_col", categorical_cols)
              \o <<Builtin("1e", <<Arg("dataset", ds), Arg("timestamp_col", ts),
                                   Arg("prediction_col", id("fraud_pred")),
                                   Arg("gt_values_col", id("is_fraud")),
                                   Arg("threshold", "0.5"),
                                   ArgL("segmentation_cols",
                                        <<id("region"), id("risk_rank")>>)>>),
                   Builtin("20", <<Arg("dataset", ds), Arg("timestamp_col", ts),
                                   Arg("prediction_col", id("fraud_pred")),
                                   Arg("threshold", "0.5"),
                                   Arg("true_label", "Fraud"),
                                   Arg("false_label", "Authorized"),
                                   ArgL("segmentation_cols",
                                        <<id("risk_rank"), id("region")>>)>>)>>
              \o PerColumn("0b", ds, ts, "nullable_col", numeric_cols \o categorical_cols))

RegressionNumericFeatures ==
    <<"longitude", "latitude", "housing_median_age", "total_rooms", "total_bedrooms",
      "population", "households", "median_income">>

\* gen_regression_model_aggregations: None stands for the ValueError of a
\* missing timestamp, prediction or ground-truth column.
gen_regression_model_aggregations(ds, cols) ==
    IF ~HasCol(cols, "timestamp") \/ ~HasCol(cols, "predicted_house_value")
       \/ ~HasCol(cols, "actual_house_value")
    THEN None
    ELSE LET id(n) == column_id_from_col_name(cols, n)
             ts    == id("timestamp")
             pred  == id("predicted_house_value")
             gt    == id("actual_house_value")
             numeric_cols == <<pred, gt>> \o PresentColIds(cols, RegressionNumericFeatures)
             categorical_cols == PresentColIds(cols, <<"ocean_proximity">>)
         IN Some(
              <<Builtin("0a", <<Arg("dataset", ds), Arg("timestamp_col", ts)>>)>>
              \o PerColumn("0f", ds, ts, "numeric_col", <<pred, gt>>)
              \o PerColumn("0d", ds, ts, "numeric_col", numeric_cols)
              \o PerColumn("0c", ds, ts, "categorical_col", categorical_cols)
              \o <<Builtin("0e", <<Arg("dataset", ds), Arg("timestamp_col", ts),
                                   Arg("prediction_col", pred),
                                   Arg("ground_truth_col", gt)>>),
                   Builtin("10", <<Arg("dataset", ds), Arg("timestamp_col", ts),
                                   Arg("prediction_col", pred),
                                   Arg("ground_truth_col", gt)>>)>>
              \o PerColumn("0b", ds, ts, "nullable_col", numeric_cols \o categorical_cols))

GenAggregations(script, ds, cols) ==
    CASE script = "add_custom"     -> gen_custom_aggregations(ds, cols)
      [] script = "add_fraud"      -> gen_fraud_model_aggregations(ds, cols)
      [] script = "add_regression" -> gen_regression_model_aggregations(ds, cols)

\* main: the generated aggregations the model does not have yet (same
\* aggregation_id and same aggregation_args).
RECURSIVE AggregationsToAdd(_, _)
AggregationsToAdd(new_aggregations, existing) ==
    IF new_aggregations = <<>> THEN <<>>
    ELSE LET agg == Head(new_aggregations)
             exists == \E k \in 1..Len(existing) :
                          /\ existing[k].aggregation_id = agg.aggregation_id
                          /\ existing[k].aggregation_args = agg.aggregation_args
         IN (IF exists THEN <<>> ELSE <<agg>>)
            \o AggregationsToAdd(Tail(new_aggregations), existing)

-----------------------------------------------------------------------------
(* The runs of the metric-configuration scripts *)

TsPred == <<Col("a1", "timestamp"), Col("b1", "prediction")>>

\* The model's datasets (model.datasets, in order) and their columns, for
\* duplicate-metrics: the new dataset D2 with every column of D1, D2 without
\* the prediction column, a third dataset, and a model that lacks D1.
DupWorlds ==
    { [datasets |-> <<"D1", "D2">>,
       schema   |-> [d \in {"D1", "D2"} |->
                        IF d = "D1" THEN TsPred
                        ELSE <<Col("a2", "timestamp"), Col("b2", "prediction")>>]],
      [datasets |-> <<"D1", "D2">>,
       schema   |-> [d \in {"D1", "D2"} |->
                        IF d = "D1" THEN TsPred ELSE <<Col("a2", "timestamp")>>]],
      [datasets |-> <<"D1", "D2", "D3">>,
       schema   |-> [d \in {"D1", "D2", "D3"} |->
                        IF d = "D1" THEN TsPred
                        ELSE IF d = "D2"
                        THEN <<Col("a2", "timestamp"), Col("b2", "prediction")>>
                        ELSE <<Col("a3", "timestamp")>>]],
      [datasets |-> <<"D2">>,
       schema   |-> [d \in {"D2"} |-> <<Col("a2", "timestamp"), Col("b2", "prediction")>>]] }

\* Aggregation specs a model may hold before duplicate-metrics runs.
DupSpecUniverse ==
    { Builtin("0a", <<Arg("dataset", "D1"), Arg("timestamp_col", "a1")>>),
      Builtin("0d", <<Arg("dataset", "D1"), Arg("timestamp_col", "a1"),
                      Arg("numeric_col", "b1")>>),
      Builtin("1f", <<Arg("dataset", "D1"), Arg("timestamp_col", "a1"),
                      ArgL("segmentation", <<"b1", "region">>)>>),
      Builtin("1e", <<Arg("dataset", "D1"), Arg("timestamp_col", "a1"),
                      Arg("threshold", "0.5"), ArgL("segmentation_cols", <<"b1">>)>>),
      AggSpec("c7", "custom", "1", <<Arg("dataset", "D1"), Arg("timestamp_col", "a1"),
                                     Arg("external_id", "u9")>>),
      Builtin("0a", <<Arg("dataset", "D2"), Arg("timestamp_col", "a2")>>),
      Builtin("0d", <<Arg("dataset", "D2"), Arg("timestamp_col", "a2"),
                      Arg("numeric_col", "b2")>>),
      Builtin("0a", <<Arg("dataset", "D3"), Arg("timestamp_col", "a3")>>),
      Builtin("0a", <<ArgL("dataset", <<"D1">>), Arg("timestamp_col", "a1")>>) }

\* DATASET_MAPPING as it may be configured.
DupMappings ==
    { <<>>,
      [d \in {"D1"} |-> "D2"],
      [d \in {"D3"} |-> "D2"],
      [d \in {"D1", "D3"} |-> "D2"],
      [d \in {"D1", "D2"} |-> IF d = "D1" THEN "D2" ELSE "D3"] }

InjectiveSeqs(S, n) == {l \in SeqsUpTo(S, n) : Cardinality(Range(l)) = Len(l)}

FraudCols ==
    [i \in 1..Len(FraudRequired) |-> Col(<<"f1", "f2", "f3", "f4", "f5", "f6", "f7", "f8",
                                          "f9">>[i], FraudRequired[i])]

HousingCols ==
    <<Col("h1", "timestamp"), Col("h2", "predicted_house_value"),
      Col("h3", "actual_house_value"), Col("h4", "median_income"),
      Col("h5", "ocean_proximity")>>

\* The model's datasets for the scripts that add aggregations: a dataset with
\* the columns the script looks for, one that lacks a required column, and a
\* model without a dataset.
AddWorlds(script) ==
    LET one(cols) == [datasets |-> <<"D1">>, schema |-> [d \in {"D1"} |-> cols]]
    IN {[datasets |-> <<>>, schema |-> <<>>]} \cup
       (CASE script = "add_custom" ->
               { one(TsPred), one(<<Col("a1", "timestamp")>>),
                 one(TsPred \o <<Col("c1", "confidence_score")>>),
                 one(<<Col("b1", "prediction")>>) }
          [] script = "add_fraud" ->
               { one(FraudCols), one(FraudCols \o <<Col("f10", "transaction_amount")>>),
                 one(SubSeq(FraudCols, 1, Len(FraudCols) - 1)) }
          [] script = "add_regression" ->
               { one(HousingCols), one(SubSeq(HousingCols, 1, 3)),
                 one(SubSeq(HousingCols, 1, 2)) })

\* Specs a model may hold before a script that adds aggregations runs: some
\* or all of those the script generates, or one of another dataset.
AddExisting(script, w) ==
    LET g == IF w.datasets = <<>> THEN None
             ELSE GenAggregations(script, w.datasets[1], w.schema[w.datasets[1]])
        other == Builtin("0a", <<Arg("dataset", "D2"), Arg("timestamp_col", "a2")>>)
    IN IF IsNone(g) THEN {<<>>, <<other>>}
       ELSE {SubSeq(Val(g), 1, k) : k \in {j \in 0..MaxSpecs : j <= Len(Val(g))}}
            \cup {Val(g), <<other>>, Val(g) \o <<other>>}

\* What the user may type at the prompt.
Responses ==
    { <<"y", "e", "s">>, <<"Y", "E", "S">>, <<"Y", "e", "s">>, <<"n", "o">>, <<"y">>,
      <<>>, <<" ", "y", "e", "s">>, <<"y", "e", "s", "!">> }

\* The upper-case letters of Basic Latin and Latin-1 and their lower case.
UpperLetters ==
    <<"A", "B", "C", "D", "E", "F", "G", "H", "I", "J", "K", "L", "M", "N", "O", "P", "Q",
      "R", "S", "T", "U", "V", "W", "X", "Y", "Z", "À", "Á", "Â", "Ã", "Ä", "Å", "Æ", "Ç",
      "È", "É", "Ê", "Ë", "Ì", "Í", "Î", "Ï", "Ð", "Ñ", "Ò", "Ó", "Ô", "Õ", "Ö", "Ø", "Ù",
      "Ú", "Û", "Ü", "Ý", "Þ">>

LowerLetters ==
    <<"a", "b", "c", "d", "e", "f", "g", "h", "i", "j", "k", "l", "m", "n", "o", "p", "q",
      "r", "s", "t", "u", "v", "w", "x", "y", "z", "à", "á", "â", "ã", "ä", "å", "æ", "ç",
      "è", "é", "ê", "ë", "ì", "í", "î", "ï", "ð", "ñ", "ò", "ó", "ô", "õ", "ö", "ø", "ù",
      "ú", "û", "ü", "ý", "þ">>

\* str.lower on one character of Basic Latin or Latin-1.
LowerChar(c) ==
    IF \E i \in 1..Len(UpperLetters) : UpperLetters[i] = c
    THEN LowerLetters[CHOOSE i \in 1..Len(UpperLetters) : UpperLetters[i] = c]
    ELSE c

lower(str) == [i \in 1..Len(str) |-> LowerChar(str[i])]

\* A variant of the test that takes every answer but "no" for consent.
ConfirmedUnlessNo(response) == lower(response) # <<"n", "o">>

\* response.lower() == "yes"
Confirmed(response) == lower(response) = <<"y", "e", "s">>

ConfigInit ==
    /\ AuditIdle
    /\ GenIdle
    /\ TxnIdle
    /\ TabIdle
    /\ OnbIdle
    /\ RaceIdle
    /\ ProfIdle
    /\ c_script \in {"duplicate", "add_custom", "add_fraud", "add_regression"}
    /\ IF c_script = "duplicate"
       THEN /\ world \in DupWorlds
            /\ srv_specs \in InjectiveSeqs(DupSpecUniverse, MaxSpecs)
            /\ c_old \in InjectiveSeqs(DatasetIds, MaxOld)
            /\ c_mapping \in DupMappings
       ELSE /\ world \in AddWorlds(c_script)
            /\ srv_specs \in AddExisting(c_script, world)
            /\ c_old = <<>>
            /\ c_mapping = <<>>
    /\ srv_specs0 = srv_specs
    /\ c_pc = "get_model"
    /\ c_model = <<>>
    /\ c_new = <<>>
    /\ c_all = <<>>
    /\ c_valid = TRUE
    /\ c_response = <<>>
    /\ c_puts = 0

\* models_client.get_model: the script reads the model's metric config.
ConfigGetModel ==
    /\ c_pc = "get_model"
    /\ \E ok \in BOOLEAN :
         IF ok THEN c_model' = srv_specs /\ c_pc' = "compute"
         ELSE c_pc' = "failed" /\ UNCHANGED c_model
    /\ UNCHANGED <<srv_specs, srv_specs0, world, c_script, c_old, c_mapping, c_new, c_all,
                   c_valid, c_response, c_puts>>

\* count_aggs_per_dataset: whether the count raises TypeError.  The first
\* dataset argument of a spec is looked up in dataset_map unless it is falsy,
\* and a list that is not empty cannot be hashed.
count_aggs_per_dataset_raises(agg_specs) ==
    \E k \in 1..Len(agg_specs) :
        LET args == agg_specs[k].aggregation_args
            ds   == {i \in 1..Len(args) : args[i].arg_key = "dataset"}
        IN /\ ds # {}
           /\ LET first == CHOOSE i \in ds : \A j \in ds : i <= j
              IN args[first].arg_value.list /\ args[first].arg_value.items # <<>>

\* duplicate-metrics: from get_datasets to the confirmation prompt.  A dataset
\* argument that holds a list raises TypeError where it is hashed: in the count
\* of the current specs, before the loop over OLD_DATASETS, or else in the
\* retained list, the count of the final specs or the validation, after it.
\* The script then ends before the prompt.
DupCompute ==
    /\ c_pc = "compute"
    /\ c_script = "duplicate"
    /\ LET new_specs == NewAggregationSpecs(world, c_model, c_mapping, c_old)
           retained  == Retained(c_model, c_mapping)
           all_specs == Val(retained) \o new_specs
           valid     == ValidationPassed(c_model, all_specs, c_old)
       IN IF count_aggs_per_dataset_raises(c_model)
          THEN c_pc' = "failed" /\ UNCHANGED <<c_new, c_all, c_valid>>
          ELSE IF IsNone(retained)
          THEN c_pc' = "failed" /\ c_new' = new_specs /\ UNCHANGED <<c_all, c_valid>>
          ELSE IF count_aggs_per_dataset_raises(all_specs) \/ IsNone(valid)
          THEN c_pc' = "failed" /\ c_new' = new_specs /\ c_all' = all_specs
               /\ UNCHANGED c_valid
          ELSE c_pc' = "prompt" /\ c_new' = new_specs /\ c_all' = all_specs
               /\ c_valid' = Val(valid)
    /\ UNCHANGED <<srv_specs, srv_specs0, world, c_script, c_old, c_mapping, c_model,
                   c_response, c_puts>>

\* A variant of all_aggregations that takes the model's list as it is on the
\* server when the list is built instead of the snapshot.
all_aggregations_reread(existing, aggregations_to_add) == srv_specs \o aggregations_to_add

\* all_aggregations = model.metric_config.aggregation_specs + aggregations_to_add
all_aggregations(existing, aggregations_to_add) == existing \o aggregations_to_add

\* add-*-aggregations main: from the dataset lookup to the confirmation prompt.
\* A model without dataset raises ValueError; a missing column raises it in
\* add-custom and makes the other two return; with nothing to add main returns.
AddCompute ==
    /\ c_pc = "compute"
    /\ c_script \in {"add_custom", "add_fraud", "add_regression"}
    /\ IF world.datasets = <<>>
       THEN c_pc' = "failed" /\ UNCHANGED <<c_new, c_all>>
       ELSE LET ds  == world.datasets[1]
                gen == GenAggregations(c_script, ds, world.schema[ds])
            IN IF IsNone(gen)
               THEN /\ c_pc' = IF c_script = "add_custom" THEN "failed" ELSE "returned"
                    /\ UNCHANGED <<c_new, c_all>>
               ELSE LET to_add == AggregationsToAdd(Val(gen), c_model)
                    IN IF to_add = <<>>
                       THEN c_pc' = "returned" /\ UNCHANGED <<c_new, c_all>>
                       ELSE /\ c_new' = to_add
                            /\ c_all' = all_aggregations(c_model, to_add)
                            /\ c_pc' = "prompt"
    /\ UNCHANGED <<srv_specs, srv_specs0, world, c_script, c_old, c_mapping, c_model,
                   c_valid, c_response, c_puts>>

\* The confirmation: input(), the comparison with "yes", and on consent
\* put_model_metric_config with the list built before the prompt.
ConfigAnswer ==
    /\ c_pc = "prompt"
    /\ \E response \in Responses :
         /\ c_response' = response
         /\ IF Confirmed(response)
            THEN /\ c_puts' = c_puts + 1
                 /\ \E ok \in BOOLEAN :
                      IF ok THEN srv_specs' = c_all /\ c_pc' = "applied"
                      ELSE c_pc' = "failed" /\ UNCHANGED srv_specs
            ELSE c_pc' = "cancelled" /\ UNCHANGED <<srv_specs, c_puts>>
    /\ UNCHANGED <<srv_specs0, world, c_script, c_old, c_mapping, c_model, c_new, c_all,
                   c_valid>>

ConfigNext ==
    \/ ConfigGetModel /\ UNCHANGED <<auditVars, genVars, txnVars, tabVars, onbVars, raceVars, profVars>>
    \/ DupCompute /\ UNCHANGED <<auditVars, genVars, txnVars, tabVars, onbVars, raceVars, profVars>>
    \/ AddCompute /\ UNCHANGED <<auditVars, genVars, txnVars, tabVars, onbVars, raceVars, profVars>>
    \/ ConfigAnswer /\ UNCHANGED <<auditVars, genVars, txnVars, tabVars, onbVars, raceVars, profVars>>

SpecConfig == ConfigInit /\ [][ConfigNext]_vars

-----------------------------------------------------------------------------
(* Properties of the metric-configuration scripts *)

DupWritten == c_script = "duplicate" /\ c_pc \in {"prompt", "cancelled", "applied", "failed"}
              /\ c_model = srv_specs0

\* C4: in the configuration duplicate-metrics writes, the specs that reference
\* a dataset listed in OLD_DATASETS are exactly those the model had for these
\* datasets before the run, in the same order, whatever OLD_DATASETS and
\* DATASET_MAPPING are.
C4_OldDatasetSpecsUnchanged ==
    (c_script = "duplicate" /\ c_pc = "applied")
        => SelectSpecs(srv_specs, Range(c_old)) = SelectSpecs(srv_specs0, Range(c_old))

\* The pairs old -> new of DATASET_MAPPING whose two datasets the model has.
MappedPairs ==
    {pr \in (DOMAIN c_mapping) \X DatasetIds :
        /\ c_mapping[pr[1]] = pr[2]
        /\ {pr[1], pr[2]} \subseteq DatasetMapIds(world)}

\* The copies of the specs the model had for old, rewritten to new.
CopiesOf(old, new) ==
    LET cm == get_column_mapping(world.schema[old], world.schema[new])
    IN MapAll(SelectSpecs(srv_specs0, {old}), old, new, cm.mapping, cm.removed)

\* C5: after duplicate-metrics is applied, for every pair old -> new of
\* DATASET_MAPPING the specs of the model that reference new are exactly the
\* rewritten copies of the specs of old that were not skipped.
C5_NewDatasetSpecsAreCopies ==
    (c_script = "duplicate" /\ c_pc = "applied")
        => \A pr \in MappedPairs :
              SelectSpecs(srv_specs, {pr[2]}) = CopiesOf(pr[1], pr[2])

ColumnIds(cols) == {cols[k].id : k \in 1..Len(cols)}

ItemsOf(agg) ==
    UNION {Range(agg.aggregation_args[i].arg_value.items) :
              i \in 1..Len(agg.aggregation_args)}

\* The old datasets the loop over OLD_DATASETS copies from.
CopiedOld ==
    {old \in Range(c_old) :
        /\ old \in DatasetMapIds(world)
        /\ old \in DOMAIN c_mapping
        /\ c_mapping[old] \in DatasetMapIds(world)}

\* C6: no spec copied to a new dataset references a column id of the old
\* dataset it was copied from, in a single-valued argument or in a list under
\* any argument key.
C6_NoOldColumnInCopies ==
    DupWritten
        => \A old \in CopiedOld :
              LET copies == CopiesFor(world, c_model, c_mapping, old)
              IN \A i \in 1..Len(copies) :
                    ItemsOf(copies[i]) \cap ColumnIds(world.schema[old]) = {}

\* The answers that are 'yes' in some mix of upper and lower case.
YesAnswers == {"y", "Y"} \X {"e", "E"} \X {"s", "S"}

\* C7: put_model_metric_config is called only after the user answered 'yes' in
\* some case, and with any other answer the run ends with the model untouched.
C7_PutOnlyAfterYes ==
    /\ (c_puts > 0 \/ srv_specs # srv_specs0) => c_response \in YesAnswers
    /\ (c_pc \in {"cancelled", "applied", "failed", "returned"} /\ c_response \notin YesAnswers)
          => (c_puts = 0 /\ srv_specs = srv_specs0)
    /\ c_puts <= 1

C7_Witness ==
    /\ c_script = "add_fraud"
    /\ c_pc = "applied"
    /\ c_response = <<"Y", "E", "S">>
    /\ c_puts = 1
    /\ srv_specs # srv_specs0

C7_WitnessRefused ==
    /\ c_script = "duplicate"
    /\ c_pc = "cancelled"
    /\ c_response = <<"y", "e", "s", "!">>
    /\ c_all # srv_specs

-----------------------------------------------------------------------------
(* data/binary-classifier-card-fraud/datagen/generate_dataset.py *)

\* The pseudo-random generators: a state in 0..RngModulus-1, a draw being the
\* state after one step, read as the uniform number draw / RngModulus.
RngModulus == 32

RngStep(s) == (5 * s + 3) % RngModulus

\* A variant of np.random.seed that leaves the generator as it is.
np_random_seed_skipped(state, seed) == state

\* np.random.seed(seed)
np_random_seed(state, seed) == seed % RngModulus

\* random.seed(seed)
random_seed(state, seed) == seed % RngModulus

Pad2(n) == <<n \div 10, n % 10>>

\* The dates a call may be given: consecutive days across the end of a month.
GenDates == [i \in 1..MaxGenDays |-> DatePlus(Date(2025, 1, 31), i - 1)]

\* datetime.fromisoformat(date).replace(tzinfo=utc): midnight of that date.
fromisoformat(d) == [year |-> d.year, month |-> d.month, day |-> d.day, hour |-> 0]

\* current_dt + timedelta(hours=1)
AddHour(dt) ==
    IF dt.hour < 23 THEN [dt EXCEPT !.hour = dt.hour + 1]
    ELSE LET n == NextDay(Date(dt.year, dt.month, dt.day))
         IN [year |-> n.year, month |-> n.month, day |-> n.day, hour |-> 0]

\* datetime <=
DtLeq(a, b) ==
    \/ a.year < b.year
    \/ a.year = b.year /\ a.month < b.month
    \/ a.year = b.year /\ a.month = b.month /\ a.day < b.day
    \/ a.year = b.year /\ a.month = b.month /\ a.day = b.day /\ a.hour <= b.hour

\* current_dt.isoformat()
isoformat(dt) ==
    <<dt.year, "-", Pad2(dt.month), "-", Pad2(dt.day), "T", Pad2(dt.hour), ":00:00+00:00">>

\* str(uuid.UUID(hashlib.md5(text).hexdigest())), a digest taken as free of collisions.
TxnId(dt, index) == <<"uuid", "md5", isoformat(dt), "_", index>>

\* A variant of the path that names the file by the day alone.
file_path_by_day(output_dir, dt) ==
    <<output_dir, "year=", dt.year, "month=", Pad2(dt.month), "day=", Pad2(dt.day),
      "inferences_hour=", Pad2(0), ".json">>

\* output_path / year=.. / month=.. / day=.. / inferences_hour=HH.json
file_path(output_dir, dt) ==
    <<output_dir, "year=", dt.year, "month=", Pad2(dt.month), "day=", Pad2(dt.day),
      "inferences_hour=", Pad2(dt.hour), ".json">>

\* np.random.choice(items, p): the item at the number of cumulative weights
\* (in percent) that the uniform draw has reached.
Choice(items, cdf, u) ==
    items[1 + Cardinality({k \in 1..Len(cdf) : cdf[k] * RngModulus <= u * 100})]

customer_segments == <<"new_to_bank", "established", "small_business">>
channels == <<"ecom", "in_store", "atm">>
regions == <<"W", "NE", "MW", "S">>

\* The quantiles of the lognormal, exponential, beta and gamma draws, by the
\* uniform draw: amount in dollars, distance in km, merchant risk in 1/10000,
\* engagement in 1/100.
LognormalAmount(u) ==
    IF u < 24 THEN 1 + 8 * u ELSE IF u < 29 THEN 201 + 70 * (u - 24) ELSE 501 + 5000 * (u - 29)

ExponentialDistance(u) ==
    IF u < 26 THEN u ELSE IF u < 30 THEN 31 + 5 * (u - 26) ELSE 51 + 1000 * (u - 30)

BetaRisk(u) == 200 * u

GammaEngagement(u) == 40 * u

Min(a, b) == IF a <= b THEN a ELSE b
Max(a, b) == IF a >= b THEN a ELSE b

\* fraud_base_prob in units of 1/10^7: 0.05 with its factors, at most 0.30.
FraudBaseProb(segment, txn_amount, distance, merchant_risk, channel) ==
    Min(5 * (IF segment = "new_to_bank" THEN 15 ELSE 10)
          * (IF txn_amount > 500 THEN 13 ELSE 10)
          * (IF distance > 50 THEN 14 ELSE 10)
          * (IF merchant_risk > 5000 THEN 12 ELSE 10)
          * (IF channel = "atm" THEN 13 ELSE 10),
        3000000)

\* fraud_score in units of 1/320 from the two beta draws, clamped to [0, 1].
FraudScore(is_fraud, b1, b2) ==
    Max(0, Min(320, IF is_fraud = 1 THEN 4 * b1 + 6 * b2 ELSE 7 * b1 + 3 * b2))

\* A variant of fraud_pred with its threshold at 0.6.
fraud_pred_at_06(fraud_score) == IF fraud_score >= 192 THEN 1 ELSE 0

\* fraud_pred = 1 if fraud_score >= 0.5 else 0
fraud_pred(fraud_score) == IF fraud_score >= 160 THEN 1 ELSE 0

\* risk_rank by fraud_score below 0.1, 0.2, 0.4, 0.6.
RiskRank(fraud_score) ==
    IF fraud_score < 32 THEN 1
    ELSE IF fraud_score < 64 THEN 2
    ELSE IF fraud_score < 128 THEN 3
    ELSE IF fraud_score < 192 THEN 4
    ELSE 5

\* random.choice(seq)
random_choice(seq, u) == seq[1 + (u % Len(seq))]

\* The body of the loop over range(transactions_per_hour): the record, and the
\* generators after its draws.
Transaction(np, py, dt, index, pools) ==
    LET u1 == RngStep(np)
        u2 == RngStep(u1)
        u3 == RngStep(u2)
        u4 == RngStep(u3)
        u5 == RngStep(u4)
        u6 == RngStep(u5)
        u7 == RngStep(u6)
        u8 == RngStep(u7)
        u9 == RngStep(u8)
        u10 == RngStep(u9)
        u11 == RngStep(u10)
        r1 == RngStep(py)
        r2 == RngStep(r1)
        segment == Choice(customer_segments, <<15, 85, 100>>, u1)
        channel == Choice(channels, <<60, 95, 100>>, u2)
        region == Choice(regions, <<25, 50, 75, 100>>, u3)
        txn_amount == Max(1, Min(LognormalAmount(u4), 10000))
        distance_from_home == Min(ExponentialDistance(u5), 1000)
        merchant_risk_score == BetaRisk(u6)
        digital_engagement == Min(GammaEngagement(u7), 1000)
        tenure_months ==
            IF segment = "new_to_bank" THEN u8 % 12
            ELSE IF segment = "small_business" THEN 12 + (u8 % 108)
            ELSE 6 + (u8 % 114)
        is_fraud ==
            IF u9 * 10000000
                 < RngModulus * FraudBaseProb(segment, txn_amount, distance_from_home,
                                              merchant_risk_score, channel)
            THEN 1 ELSE 0
        fraud_score == FraudScore(is_fraud, u10, u11)
    IN [txn |-> [timestamp |-> isoformat(dt),
                 txn_id |-> TxnId(dt, index),
                 account_id |-> random_choice(pools.account_ids, r1),
                 customer_id |-> random_choice(pools.customer_ids, r2),
                 is_fraud |-> is_fraud,
                 fraud_score |-> fraud_score,
                 fraud_pred |-> fraud_pred(fraud_score),
                 rules_engine_flag |->
                     IF txn_amount > 200 /\ distance_from_home > 30 THEN 1 ELSE 0,
                 risk_rank |-> RiskRank(fraud_score),
                 customer_segment |-> segment,
                 channel |-> channel,
                 region |-> region,
                 txn_amount |-> txn_amount,
                 distance_from_home_km |-> distance_from_home,
                 merchant_risk_score |-> merchant_risk_score,
                 digital_engagement |-> digital_engagement,
                 tenure_months |-> tenure_months],
        np |-> u11,
        py |-> r2]

\* The loop over range(transactions_per_hour) from the record numbered
\* Len(transactions) on.
RECURSIVE HourTransactions(_, _, _, _, _, _)
HourTransactions(np, py, dt, transactions, n, pools) ==
    IF Len(transactions) >= n THEN [transactions |-> transactions, np |-> np, py |-> py]
    ELSE LET t == Transaction(np, py, dt, Len(transactions), pools)
         IN HourTransactions(t.np, t.py, dt, Append(transactions, t.txn), n, pools)

\* [prefix + str(random.randint(lo, hi)) for _ in range(n)]
RECURSIVE RandintIds(_, _, _, _, _)
RandintIds(py, prefix, lo, n, acc) ==
    IF Len(acc) >= n THEN [ids |-> acc, py |-> py]
    ELSE LET r == RngStep(py)
         IN RandintIds(r, prefix, lo, n, Append(acc, <<prefix, lo + r>>))

CountFraud(transactions) ==
    Cardinality({i \in 1..Len(transactions) : transactions[i].is_fraud = 1})

GenArgSets ==
    [start_date : Range(GenDates), end_date : Range(GenDates),
     transactions_per_hour : 0..MaxTph, seed : 1..MaxSeed,
     output_dir : {None, Some("out")}]

GenInit ==
    /\ AuditIdle
    /\ ConfigIdle
    /\ TxnIdle
    /\ TabIdle
    /\ OnbIdle
    /\ RaceIdle
    /\ ProfIdle
    /\ g_args \in GenArgSets
    /\ g_pc = "start"
    /\ g_run = 1
    /\ g_np = 0
    /\ g_py = 0
    /\ g_pools = <<>>
    /\ g_cur = <<>>
    /\ g_stats = <<>>
    /\ g_fs = <<>>
    /\ g_log = <<>>
    /\ g_first = None

\* generate_dataset up to the loop: seeding, the id pools, stats, current_dt.
GenStart ==
    /\ g_pc = "start"
    /\ g_np' = np_random_seed(g_np, g_args.seed)
    /\ LET seeded == random_seed(g_py, g_args.seed)
           a == RandintIds(seeded, "acct_", 10000, NumAccounts, <<>>)
           c == RandintIds(a.py, "cust_", 10000, NumCustomers, <<>>)
       IN /\ g_pools' = [account_ids |-> a.ids, customer_ids |-> c.ids]
          /\ g_py' = c.py
    /\ g_stats' = [total_transactions |-> 0, total_fraud |-> 0, files_created |-> 0,
                   date_range |-> <<g_args.start_date, " to ", g_args.end_date>>]
    /\ g_cur' = fromisoformat(g_args.start_date)
    /\ g_log' = <<>>
    /\ g_pc' = "loop"
    /\ UNCHANGED <<g_args, g_run, g_fs, g_first>>

\* One pass of while current_dt <= end_dt: the records of the hour, the file,
\* the statistics, the step to the next hour.
GenHour ==
    /\ g_pc = "loop"
    /\ DtLeq(g_cur, fromisoformat(g_args.end_date))
    /\ LET h == HourTransactions(g_np, g_py, g_cur, <<>>, g_args.transactions_per_hour,
                                 g_pools)
           written == ~IsNone(g_args.output_dir)
           path == file_path(Val(g_args.output_dir), g_cur)
       IN /\ g_np' = h.np
          /\ g_py' = h.py
          /\ g_stats' = [g_stats EXCEPT
                 !.total_transactions = @ + Len(h.transactions),
                 !.total_fraud = @ + CountFraud(h.transactions),
                 !.files_created = IF written THEN @ + 1 ELSE @]
          /\ g_fs' = IF written
                     THEN [f \in DOMAIN g_fs \cup {path} |->
                              IF f = path THEN h.transactions ELSE g_fs[f]]
                     ELSE g_fs
          /\ g_log' = Append(g_log, [slot |-> g_cur,
                                     path |-> IF written THEN Some(path) ELSE None,
                                     transactions |-> h.transactions])
    /\ g_cur' = AddHour(g_cur)
    /\ UNCHANGED <<g_args, g_pc, g_run, g_pools, g_first>>

\* The loop ends: fraud_rate, return stats.
GenReturn ==
    /\ g_pc = "loop"
    /\ ~DtLeq(g_cur, fromisoformat(g_args.end_date))
    /\ g_stats' = [total_transactions |-> g_stats.total_transactions,
                   total_fraud |-> g_stats.total_fraud,
                   files_created |-> g_stats.files_created,
                   date_range |-> g_stats.date_range,
                   fraud_rate |-> IF g_stats.total_transactions > 0
                                  THEN <<g_stats.total_fraud, g_stats.total_transactions>>
                                  ELSE <<0, 1>>]
    /\ g_pc' = "done"
    /\ UNCHANGED <<g_args, g_run, g_np, g_py, g_pools, g_cur, g_fs, g_log, g_first>>

\* The process calls generate_dataset once more: over the same dates with any
\* other arguments, or over any dates with the other arguments as before.
GenCallAgain ==
    /\ g_pc = "done"
    /\ g_run = 1
    /\ g_first' = Some([args |-> g_args, stats |-> g_stats, log |-> g_log])
    /\ g_args' \in {a \in GenArgSets :
                       \/ a.start_date = g_args.start_date /\ a.end_date = g_args.end_date
                       \/ /\ a.transactions_per_hour = g_args.transactions_per_hour
                          /\ a.seed = g_args.seed
                          /\ a.output_dir = g_args.output_dir}
    /\ g_run' = 2
    /\ g_pc' = "start"
    /\ UNCHANGED <<g_np, g_py, g_pools, g_cur, g_stats, g_fs, g_log>>

GenNext ==
    \/ GenStart /\ UNCHANGED <<auditVars, configVars, txnVars, tabVars, onbVars, raceVars, profVars>>
    \/ GenHour /\ UNCHANGED <<auditVars, configVars, txnVars, tabVars, onbVars, raceVars, profVars>>
    \/ GenReturn /\ UNCHANGED <<auditVars, configVars, txnVars, tabVars, onbVars, raceVars, profVars>>
    \/ GenCallAgain /\ UNCHANGED <<auditVars, configVars, txnVars, tabVars, onbVars, raceVars, profVars>>

SpecGen == GenInit /\ [][GenNext]_vars

-----------------------------------------------------------------------------
(* Properties of the card-fraud generator *)

DateIndex(d) == CHOOSE i \in 1..MaxGenDays : GenDates[i] = d

\* Hour slots 00 to 23 of every date from start_date through end_date.
InclusiveSlots(start_date, end_date) ==
    LET i == DateIndex(start_date)
        j == DateIndex(end_date)
    IN [k \in 1..(24 * (j - i + 1)) |->
          LET d == GenDates[i + ((k - 1) \div 24)]
          IN [year |-> d.year, month |-> d.month, day |-> d.day, hour |-> (k - 1) % 24]]

LogSlots(log) == [k \in 1..Len(log) |-> log[k].slot]

\* C8: the call generates every hour slot 00:00 to 23:00 of every date from
\* start_date through end_date, 24 slots for each of the D dates.
C8_EndDateInclusive ==
    (g_pc = "done" /\ DateIndex(g_args.start_date) <= DateIndex(g_args.end_date))
        => LogSlots(g_log) = InclusiveSlots(g_args.start_date, g_args.end_date)

LogRecords(log) == [k \in 1..Len(log) |-> [slot |-> log[k].slot,
                                            transactions |-> log[k].transactions]]

SameFour(a, b) ==
    /\ a.start_date = b.start_date
    /\ a.end_date = b.end_date
    /\ a.transactions_per_hour = b.transactions_per_hour
    /\ a.seed = b.seed

\* C9: two calls with equal arguments return equal statistics and write the
\* same files with the same records in the same order; the records do not
\* depend on output_dir; and a txn_id is determined by the hour and the index
\* of the record in its hour, so that it is the same in any two calls.
C9_Deterministic ==
    (g_run = 2 /\ g_pc = "done")
        => LET first == Val(g_first)
           IN /\ SameFour(g_args, first.args)
                    => LogRecords(g_log) = LogRecords(first.log)
              /\ g_args = first.args => (g_stats = first.stats /\ g_log = first.log)
              /\ \A k \in 1..Len(g_log) : \A l \in 1..Len(first.log) :
                    g_log[k].slot = first.log[l].slot
                        => \A n \in 1..Min(Len(g_log[k].transactions),
                                           Len(first.log[l].transactions)) :
                              g_log[k].transactions[n].txn_id
                                  = first.log[l].transactions[n].txn_id
              /\ \A k \in 1..Len(g_log) : \A l \in 1..Len(g_log) :
                    \A n \in 1..Len(g_log[k].transactions) :
                    \A o \in 1..Len(g_log[l].transactions) :
                       (g_log[k].transactions[n].txn_id = g_log[l].transactions[o].txn_id)
                           <=> (k = l /\ n = o)

C9_Witness ==
    /\ g_run = 2
    /\ g_pc = "done"
    /\ g_args = Val(g_first).args
    /\ ~IsNone(g_args.output_dir)
    /\ g_args.transactions_per_hour = 2
    /\ Len(g_log) > 24
    /\ g_stats.total_fraud > 0
    /\ g_stats.total_fraud < g_stats.total_transactions
    /\ g_log = Val(g_first).log

Unpad2(digits) == 10 * digits[1] + digits[2]

\* C10: the call writes one file per generated hour slot, at
\* year=YYYY/month=MM/day=DD/inferences_hour=HH.json under output_dir, holding
\* transactions_per_hour records; on return total_transactions is
\* transactions_per_hour times the number of slots, files_created the number
\* of slots (0 without output_dir) and total_fraud the number of records with
\* is_fraud = 1.
C10_FilesAndStatistics ==
    g_pc = "done"
        => /\ \A k \in 1..Len(g_log) :
                 Len(g_log[k].transactions) = g_args.transactions_per_hour
           /\ g_stats.total_transactions = g_args.transactions_per_hour * Len(g_log)
           /\ g_stats.total_fraud
                 = Cardinality({<<k, n>> \in (1..Len(g_log)) \X (1..MaxTph + 1) :
                                   /\ n <= Len(g_log[k].transactions)
                                   /\ g_log[k].transactions[n].is_fraud = 1})
           /\ IF IsNone(g_args.output_dir)
              THEN /\ g_stats.files_created = 0
                   /\ \A k \in 1..Len(g_log) : IsNone(g_log[k].path)
              ELSE /\ g_stats.files_created = Len(g_log)
                   /\ Cardinality({g_log[k].path : k \in 1..Len(g_log)}) = Len(g_log)
                   /\ \A k \in 1..Len(g_log) :
                         LET f == Val(g_log[k].path)
                             t == g_log[k].slot
                         IN /\ f \in DOMAIN g_fs
                            /\ g_fs[f] = g_log[k].transactions
                            /\ f[1] = Val(g_args.output_dir)
                            /\ <<f[2], f[4], f[6], f[8], f[10]>>
                                  = <<"year=", "month=", "day=", "inferences_hour=", ".json">>
                            /\ f[3] = t.year
                            /\ Len(f[5]) = 2 /\ Unpad2(f[5]) = t.month
                            /\ Len(f[7]) = 2 /\ Unpad2(f[7]) = t.day
                            /\ Len(f[9]) = 2 /\ Unpad2(f[9]) = t.hour

C10_Witness ==
    /\ g_pc = "done"
    /\ ~IsNone(g_args.output_dir)
    /\ g_args.transactions_per_hour = 2
    /\ g_stats.files_created = 25
    /\ g_stats.total_transactions = 50
    /\ g_stats.total_fraud > 0
    /\ \E f \in DOMAIN g_fs : f[5] = <<0, 2>> /\ f[9] = <<0, 0>>
    /\ \E f \in DOMAIN g_fs : f[5] = <<0, 1>> /\ f[9] = <<2, 3>>

C10_WitnessNoOutput ==
    /\ g_pc = "done"
    /\ g_run = 1
    /\ IsNone(g_args.output_dir)
    /\ g_stats.total_transactions > 0
    /\ g_stats.files_created = 0
    /\ g_fs = <<>>

\* Every record generated so far in the call.
GenTransactions ==
    UNION {Range(g_log[k].transactions) : k \in 1..Len(g_log)}

\* C14: in every generated transaction fraud_pred is 1 exactly when
\* fraud_score >= 0.5 and risk_rank is 1, 2, 3, 4 or 5 as fraud_score is below
\* 0.1, below 0.2, below 0.4, below 0.6 or at least 0.6; so risk_rank <= 3
\* implies fraud_pred = 0 and risk_rank = 5 implies fraud_pred = 1.  A
\* fraud_score is held in units of 1/320.
C14_PredAndRankFollowScore ==
    \A t \in GenTransactions :
        /\ t.fraud_pred \in {0, 1}
        /\ t.fraud_pred = 1 <=> 10 * t.fraud_score >= 5 * 320
        /\ t.risk_rank = 1 <=> 10 * t.fraud_score < 1 * 320
        /\ t.risk_rank = 2 <=> (10 * t.fraud_score >= 1 * 320 /\ 10 * t.fraud_score < 2 * 320)
        /\ t.risk_rank = 3 <=> (10 * t.fraud_score >= 2 * 320 /\ 10 * t.fraud_score < 4 * 320)
        /\ t.risk_rank = 4 <=> (10 * t.fraud_score >= 4 * 320 /\ 10 * t.fraud_score < 6 * 320)
        /\ t.risk_rank = 5 <=> 10 * t.fraud_score >= 6 * 320
        /\ t.risk_rank <= 3 => t.fraud_pred = 0
        /\ t.risk_rank = 5 => t.fraud_pred = 1

\* A finished call whose records include risk_rank 4 with fraud_pred 1, a
\* risk_rank of at most 3 and a risk_rank of 5.
C14_Witness ==
    /\ g_pc = "done"
    /\ \E t \in GenTransactions : t.risk_rank = 4 /\ t.fraud_pred = 1
    /\ \E t \in GenTransactions : t.risk_rank <= 3 /\ t.fraud_pred = 0
    /\ \E t \in GenTransactions : t.risk_rank = 5 /\ t.fraud_pred = 1

-----------------------------------------------------------------------------
(* data/multi-class-classifier-txn-category/datagen/generate_dataset.py *)

CATEGORIES ==
    <<"groceries", "dining", "travel", "entertainment", "utilities", "healthcare",
      "shopping", "automotive">>

CategoryIndex(cat) == CHOOSE k \in 1..Len(CATEGORIES) : CATEGORIES[k] = cat

\* CATEGORY_PRIORS, in percent.
CATEGORY_PRIORS == <<20, 15, 8, 10, 10, 8, 18, 11>>

\* AMOUNT_LOG_PARAMS: the median exp(mean_ln) of each category, in dollars.
AmountMedian == <<45, 25, 245, 33, 90, 67, 55, 74>>

CHANNELS == <<"in_store", "online", "mobile", "contactless">>

\* CHANNEL_PROBS, in percent.
CHANNEL_PROBS ==
    << <<55, 15, 10, 20>>, <<65, 20, 10, 5>>, <<25, 55, 15, 5>>, <<35, 40, 20, 5>>,
       <<5, 70, 25, 0>>, <<65, 25, 10, 0>>, <<30, 50, 15, 5>>, <<80, 8, 5, 7>> >>

\* PEAK_HOURS, each a range(first, last + 1).
PEAK_HOURS ==
    << 9..19, (11..13) \cup (18..21), 6..21, 14..22, 8..17, 8..16, 10..20, 7..19 >>

\* WEEKEND_MULTIPLIER, in tenths.
WEEKEND_MULTIPLIER == <<12, 15, 14, 16, 8, 5, 14, 11>>

MERCHANT_TYPES ==
    << <<"supermarket", "convenience_store", "wholesale_club", "specialty_food">>,
       <<"restaurant", "fast_food", "cafe", "food_delivery", "bar">>,
       <<"airline", "hotel", "car_rental", "rideshare", "vacation_rental">>,
       <<"cinema", "streaming", "gaming", "event_venue", "amusement">>,
       <<"electric", "gas", "water", "internet", "mobile_carrier">>,
       <<"pharmacy", "clinic", "hospital", "dental", "vision">>,
       <<"department_store", "online_retailer", "electronics", "clothing", "home_goods">>,
       <<"gas_station", "parking", "auto_repair", "car_wash", "dealership">> >>

CUSTOMER_SEGMENTS == <<"retail", "premium", "small_business">>

\* CATEGORY_ACCURACY, in percent.
CATEGORY_ACCURACY == <<82, 78, 88, 74, 90, 76, 75, 85>>

\* CONFUSION_TARGETS: the targets of each category and their weights in percent.
CONFUSION_TARGETS ==
    << [keys |-> <<"shopping", "dining", "automotive">>, values |-> <<50, 30, 20>>],
       [keys |-> <<"entertainment", "groceries", "shopping">>, values |-> <<45, 30, 25>>],
       [keys |-> <<"entertainment", "shopping", "automotive">>, values |-> <<40, 35, 25>>],
       [keys |-> <<"dining", "shopping", "travel">>, values |-> <<45, 30, 25>>],
       [keys |-> <<"healthcare", "shopping", "automotive">>, values |-> <<40, 35, 25>>],
       [keys |-> <<"utilities", "shopping", "groceries">>, values |-> <<45, 30, 25>>],
       [keys |-> <<"groceries", "entertainment", "automotive">>, values |-> <<45, 30, 25>>],
       [keys |-> <<"shopping", "groceries", "utilities">>, values |-> <<40, 35, 25>>] >>

RECURSIVE SumTo(_, _)
SumTo(w, k) == IF k = 0 THEN 0 ELSE w[k] + SumTo(w, k - 1)

\* np.random.choice(len(w), p = w / sum(w)): the number of cumulative weights
\* that the uniform draw has reached, counted from 1.
WeightedIndex(w, u) ==
    1 + Cardinality({k \in 1..Len(w) : SumTo(w, k) * RngModulus <= u * SumTo(w, Len(w))})

\* current_dt.weekday(): 2025-01-31 is a Friday.
weekday(dt) ==
    (4 + DateIndex(Date(dt.year, dt.month, dt.day)) - 1) % 7

\* current_dt.strftime('%Y-%m-%d')
strftime(dt) == <<dt.year, "-", Pad2(dt.month), "-", Pad2(dt.day)>>

\* adjusted_priors before the division by their sum.
adjusted_priors(hour, is_weekend) ==
    [k \in 1..Len(CATEGORIES) |->
        CATEGORY_PRIORS[k] * (IF hour \in PEAK_HOURS[k] THEN 13 ELSE 10)
                           * (IF is_weekend THEN WEEKEND_MULTIPLIER[k] ELSE 10)]

\* The quantile of the log-normal amount of a category by the uniform draw, in
\* dollars, before the cap at 50000.
LognormalByCategory(k, u) ==
    IF u < 31 THEN (AmountMedian[k] * (u + 1)) \div 8 ELSE AmountMedian[k] * 300

\* The quantiles of the gamma draws behind np.random.dirichlet, by the weight
\* alpha of the component (0.4, 2.5 or 8.0) and the uniform draw, in tenths.
GammaDraw(alpha, u) ==
    IF alpha = 80 THEN 30 + 4 * u
    ELSE IF alpha = 25 THEN 3 + 3 * u
    ELSE (u * u) \div 20

\* round(float(p), 6) of the share w / total, in millionths: the float nearest
\* w / total, rounded to the nearest millionth.  Where w / total lies half way
\* between two millionths the float decides: it is w * 2^k / total rounded to
\* an integer of 53 bits (k = 52 + e, 2^e the least power with w * 2^e >= total),
\* so it lies below w / total when the remainder of that division is under half
\* of total and above it when over; a share that is a float itself (remainder
\* 0) goes to the even millionth.
RoundedShare(w, total) ==
    LET q == (w * 1000000) \div total
        r == (w * 1000000) % total
        e == CHOOSE j \in 0..30 :
                /\ (total + 2^j - 1) \div 2^j <= w
                /\ \A i \in 0..(j - 1) : (total + 2^i - 1) \div 2^i > w
        p26 == 2^26 % total
        rem == (((((p26 * p26) % total) * (2^e % total)) % total) * (w % total)) % total
    IN IF 2 * r > total THEN q + 1
       ELSE IF 2 * r < total THEN q
       ELSE IF rem = 0 THEN q + (q % 2)
       ELSE IF 2 * rem > total THEN q + 1
       ELSE q

\* np.random.dirichlet(alpha): the gamma draws of the components in order.
RECURSIVE GammaDraws(_, _, _)
GammaDraws(alpha, np, acc) ==
    IF Len(acc) >= Len(alpha) THEN [draws |-> acc, np |-> np]
    ELSE LET u == RngStep(np)
         IN GammaDraws(alpha, u, Append(acc, GammaDraw(alpha[Len(acc) + 1], u)))

\* The body of the loop over range(transactions_per_hour): the row, and the
\* generators after its draws.
TxnRow(np, py, dt, i, accounts) ==
    LET hour == dt.hour
        day_of_week == weekday(dt)
        u1 == RngStep(np)
        gt_idx == WeightedIndex(adjusted_priors(hour, day_of_week >= 5), u1)
        u2 == RngStep(u1)
        amount == Min(LognormalByCategory(gt_idx, u2), 50000)
        u3 == RngStep(u2)
        channel == CHANNELS[WeightedIndex(CHANNEL_PROBS[gt_idx], u3)]
        r1 == RngStep(py)
        merchant_type == random_choice(MERCHANT_TYPES[gt_idx], r1)
        r2 == RngStep(r1)
        account == random_choice(accounts, r2)
        u4 == RngStep(u3)
        correct == u4 * 100 < RngModulus * CATEGORY_ACCURACY[gt_idx]
        u5 == IF correct THEN u4 ELSE RngStep(u4)
        confusion == CONFUSION_TARGETS[gt_idx]
        chosen_idx ==
            IF correct THEN gt_idx
            ELSE CategoryIndex(confusion.keys[WeightedIndex(confusion.values, u5)])
        alpha == [k \in 1..Len(CATEGORIES) |->
                    IF k = chosen_idx THEN 80
                    ELSE IF k = gt_idx THEN 25 ELSE 4]
        g == GammaDraws(alpha, u5, <<>>)
        total == SumTo(g.draws, Len(g.draws))
        pred_probs == [k \in 1..Len(CATEGORIES) |-> RoundedShare(g.draws[k], total)]
        pred_idx == chosen_idx
    IN [row |-> [timestamp |-> dt,
                 transaction_id |-> TxnId(dt, i),
                 account_id |-> account.id,
                 customer_segment |-> account.segment,
                 channel |-> channel,
                 merchant_type |-> merchant_type,
                 transaction_amount |-> amount,
                 hour_of_day |-> hour,
                 day_of_week |-> day_of_week,
                 ground_truth_category |-> CATEGORIES[gt_idx],
                 predicted_category |-> CATEGORIES[pred_idx],
                 prediction_confidence |-> pred_probs[pred_idx],
                 pred_prob |-> pred_probs],
        np |-> g.np,
        py |-> r2]

\* The loop over range(transactions_per_hour) from row i on.
RECURSIVE TxnHourRows(_, _, _, _, _, _)
TxnHourRows(np, py, dt, rows, n, accounts) ==
    IF Len(rows) >= n THEN [rows |-> rows, np |-> np, py |-> py]
    ELSE LET t == TxnRow(np, py, dt, Len(rows), accounts)
         IN TxnHourRows(t.np, t.py, dt, Append(rows, t.row), n, accounts)

\* account_ids by random.sample, then account_segment by np.random.choice.
RECURSIVE TxnAccounts(_, _, _, _)
TxnAccounts(np, py, n, acc) ==
    IF Len(acc) >= n THEN [accounts |-> acc, np |-> np, py |-> py]
    ELSE LET r == RngStep(py)
         IN TxnAccounts(np, r, n, Append(acc, [id |-> <<"acct_", 100000 + r>>]))

RECURSIVE TxnSegments(_, _, _)
TxnSegments(np, accounts, k) ==
    IF k > Len(accounts) THEN [accounts |-> accounts, np |-> np]
    ELSE LET u == RngStep(np)
         IN TxnSegments(u,
                [accounts EXCEPT ![k] =
                    [id |-> accounts[k].id,
                     segment |-> CUSTOMER_SEGMENTS[WeightedIndex(<<70, 20, 10>>, u)]]],
                k + 1)

TxnArgSets ==
    [start_date : Range(GenDates), end_date : Range(GenDates),
     transactions_per_hour : 0..MaxTph, seed : 0..(RngModulus - 1),
     output_dir : {None, Some("out")}]

TxnInit ==
    /\ AuditIdle
    /\ ConfigIdle
    /\ GenIdle
    /\ TabIdle
    /\ OnbIdle
    /\ RaceIdle
    /\ ProfIdle
    /\ t_args \in TxnArgSets
    /\ t_pc = "start"
    /\ t_np = 0
    /\ t_py = 0
    /\ t_accounts = <<>>
    /\ t_cur = <<>>
    /\ t_rows = <<>>
    /\ t_stats = <<>>
    /\ t_files = <<>>
    /\ t_dirs = {}

\* generate_dataset up to the loop: seeding, the customer base, stats, current_dt.
TxnStart ==
    /\ t_pc = "start"
    /\ LET a == TxnAccounts(np_random_seed(t_np, t_args.seed),
                            random_seed(t_py, t_args.seed), NumAccounts, <<>>)
           b == TxnSegments(a.np, a.accounts, 1)
       IN /\ t_accounts' = b.accounts
          /\ t_np' = b.np
          /\ t_py' = a.py
    /\ t_stats' = [total_transactions |-> 0, correct_predictions |-> 0,
                   category_counts |-> [k \in 1..Len(CATEGORIES) |-> 0],
                   files_created |-> 0,
                   date_range |-> <<t_args.start_date, " to ", t_args.end_date>>]
    /\ t_rows' = <<>>
    /\ t_cur' = fromisoformat(t_args.start_date)
    /\ t_pc' = "loop"
    /\ UNCHANGED <<t_args, t_files, t_dirs>>

\* One pass of while current_dt <= end_dt: the rows of the hour appended to
\* rows_by_date[date_str], the statistics, the step to the next hour.
TxnHour ==
    /\ t_pc = "loop"
    /\ DtLeq(t_cur, fromisoformat(t_args.end_date))
    /\ LET h == TxnHourRows(t_np, t_py, t_cur, <<>>, t_args.transactions_per_hour,
                            t_accounts)
           date_str == strftime(t_cur)
           before == IF date_str \in DOMAIN t_rows THEN t_rows[date_str] ELSE <<>>
       IN /\ t_np' = h.np
          /\ t_py' = h.py
          /\ t_rows' = [d \in DOMAIN t_rows \cup {date_str} |->
                           IF d = date_str THEN before \o h.rows ELSE t_rows[d]]
          /\ t_stats' = [t_stats EXCEPT
                 !.total_transactions = @ + Len(h.rows),
                 !.correct_predictions =
                     @ + Cardinality({k \in 1..Len(h.rows) :
                           h.rows[k].predicted_category = h.rows[k].ground_truth_category}),
                 !.category_counts =
                     [c \in 1..Len(CATEGORIES) |->
                         @[c] + Cardinality({k \in 1..Len(h.rows) :
                                   h.rows[k].ground_truth_category = CATEGORIES[c]})]]
    /\ t_cur' = AddHour(t_cur)
    /\ UNCHANGED <<t_args, t_pc, t_accounts, t_files, t_dirs>>

\* sorted(rows_by_date): the date strings in ascending order.
sorted_dates(rows_by_date) ==
    LET idx == SortedSet({i \in 1..MaxGenDays : strftime(GenDates[i]) \in DOMAIN rows_by_date})
    IN [k \in 1..Len(idx) |-> strftime(GenDates[idx[k]])]

\* _write_parquet: for every date in order the partition directory, then the
\* file.  A date without rows gives a frame without columns, and df['timestamp']
\* raises KeyError after the directory of that date was made.
write_parquet(rows_by_date, output_dir) ==
    LET dates == sorted_dates(rows_by_date)
        empty == {k \in 1..Len(dates) : rows_by_date[dates[k]] = <<>>}
        stop  == IF empty = {} THEN Len(dates) + 1
                 ELSE CHOOSE k \in empty : \A j \in empty : k <= j
    IN [dirs   |-> {<<output_dir, dates[k]>> : k \in 1..Min(stop, Len(dates))},
        files  |-> [f \in {<<output_dir, dates[k], "data-", dates[k], ".parquet">> :
                              k \in 1..(stop - 1)} |-> rows_by_date[f[2]]],
        files_created |-> stop - 1,
        raised |-> empty # {}]

\* After the loop: _write_parquet with an output_dir, then category_rate and
\* accuracy, whose division fails when no transaction was generated.
TxnFinish ==
    /\ t_pc = "loop"
    /\ ~DtLeq(t_cur, fromisoformat(t_args.end_date))
    /\ LET written == ~IsNone(t_args.output_dir)
           w == write_parquet(t_rows, Val(t_args.output_dir))
           files_created == IF written THEN w.files_created ELSE 0
       IN /\ t_files' = IF written THEN w.files ELSE t_files
          /\ t_dirs' = IF written THEN w.dirs ELSE t_dirs
          /\ IF (written /\ w.raised) \/ t_stats.total_transactions = 0
             THEN /\ t_pc' = "failed"
                  /\ t_stats' = [t_stats EXCEPT !.files_created = files_created]
             ELSE /\ t_pc' = "done"
                  /\ t_stats' =
                        [total_transactions |-> t_stats.total_transactions,
                         correct_predictions |-> t_stats.correct_predictions,
                         category_counts |-> t_stats.category_counts,
                         files_created |-> files_created,
                         date_range |-> t_stats.date_range,
                         category_rate |->
                             [c \in 1..Len(CATEGORIES) |->
                                 <<t_stats.category_counts[c], t_stats.total_transactions>>],
                         accuracy |-> <<t_stats.correct_predictions,
                                        t_stats.total_transactions>>]
    /\ UNCHANGED <<t_args, t_np, t_py, t_accounts, t_cur, t_rows>>

TxnNext ==
    \/ TxnStart /\ UNCHANGED <<auditVars, configVars, genVars, tabVars, onbVars, raceVars, profVars>>
    \/ TxnHour /\ UNCHANGED <<auditVars, configVars, genVars, tabVars, onbVars, raceVars, profVars>>
    \/ TxnFinish /\ UNCHANGED <<auditVars, configVars, genVars, tabVars, onbVars, raceVars, profVars>>

SpecTxn == TxnInit /\ [][TxnNext]_vars

-----------------------------------------------------------------------------
(* Properties of the transaction-category generator *)

TxnAllRows == UNION {Range(t_rows[d]) : d \in DOMAIN t_rows}

\* C11: in every row predicted_category is the class with the largest
\* pred_prob value and prediction_confidence is the maximum of the eight
\* pred_prob values.
C11_PredictedIsArgmax ==
    \A row \in TxnAllRows :
        /\ \A k \in 1..Len(CATEGORIES) :
              row.pred_prob[k] <= row.pred_prob[CategoryIndex(row.predicted_category)]
        /\ \A k \in 1..Len(CATEGORIES) : row.pred_prob[k] <= row.prediction_confidence
        /\ \E k \in 1..Len(CATEGORIES) : row.pred_prob[k] = row.prediction_confidence

-----------------------------------------------------------------------------
(* data/cc-application/datagen/generate_dataset.py,                         *)
(* data/loan-amount-prediction/datagen/generate_dataset.py,                 *)
(* data/regression-housing-price-prediction/datagen/generate_dataset.py     *)

\* The first date the generators may reach, and today.
TabBase == Date(2025, 1, 30)
TabToday == DatePlus(TabBase, MaxPastDays)

\* d - timedelta(days=n)
DateMinus(d, n) ==
    CHOOSE x \in {DatePlus(TabBase, k) : k \in 0..MaxPastDays} : DatePlus(x, n) = d

\* A variant of the day of row i that starts one day later.
days_offset_shifted(i, total_days) == (i % total_days) + 1

\* days_offset = i % total_days
days_offset(i, total_days) == i % total_days

\* The body of the loop over range(n_samples): the naive timestamp of row i and
\* the generator after its three draws.
RowTimestamp(np, start_date, i, total_days) ==
    LET u1 == RngStep(np)
        u2 == RngStep(u1)
        u3 == RngStep(u2)
    IN [ts |-> [date |-> DatePlus(start_date, days_offset(i, total_days)),
                hour |-> u1 % 24, minute |-> u2 % 60, second |-> u3 % 60],
        np |-> u3]

\* date.strftime('%Y-%m-%d') and str(date)
DateStr(d) == <<d.year, "-", Pad2(d.month), "-", Pad2(d.day)>>

\* Timestamp.isoformat() of a UTC timestamp
TsIsoformat(ts) ==
    DateStr(ts.date) \o <<"T", Pad2(ts.hour), ":", Pad2(ts.minute), ":", Pad2(ts.second),
                          "+00:00">>

\* pd.to_datetime(df['timestamp']).dt.date.astype(str) on an ISO string
IsoDateStr(iso) == SubSeq(iso, 1, 5)

\* The columns of housing.csv.
HousingCsvColumns ==
    <<"longitude", "latitude", "housing_median_age", "total_rooms", "total_bedrooms",
      "population", "households", "median_income", "median_house_value", "ocean_proximity">>

\* column_order of the housing generator.
HousingColumnOrder ==
    <<"timestamp", "house_id", "actual_house_value", "predicted_house_value",
      "longitude", "latitude", "housing_median_age", "total_rooms", "total_bedrooms",
      "population", "households", "median_income", "ocean_proximity">>

\* The columns of the DataFrame each generator returns, in order.
FrameColumns(kind) ==
    CASE kind = "cc_application" ->
            <<"partition_date", "timestamp", "application_id", "region", "actual_label",
              "predicted_label", "predicted_probability", "is_valid_application",
              "credit_score", "annual_income", "age", "employment_status", "years_at_job",
              "debt_to_income_ratio", "num_credit_cards", "years_credit_history">>
      [] kind = "loan" ->
            <<"partition_date", "timestamp", "loan_id", "region", "actual_loan_amount",
              "predicted_loan_amount", "is_valid_application", "credit_score",
              "annual_income", "age", "employment_status", "years_at_job",
              "debt_to_income_ratio", "loan_purpose", "loan_term_months",
              "years_credit_history", "num_existing_loans">>
      [] kind = "housing" ->
            LET renamed == [k \in 1..Len(HousingCsvColumns) |->
                               IF HousingCsvColumns[k] = "median_house_value"
                               THEN "actual_house_value" ELSE HousingCsvColumns[k]]
                cols == renamed \o <<"predicted_house_value", "house_id", "timestamp">>
                present(c) == c \in Range(cols)
                ordered(c) == c \in Range(HousingColumnOrder)
                remaining(c) == ~ordered(c)
            IN SelectSeq(HousingColumnOrder, present) \o SelectSeq(cols, remaining)

\* Row i of the DataFrame, in the columns that carry its identity and date.
FrameRow(kind, i, ts) ==
    IF kind = "housing"
    THEN [id |-> i + 1, timestamp |-> TsIsoformat(ts)]
    ELSE [id |-> i + 1, timestamp |-> ts, partition_date |-> ts.date]

\* The key of df.groupby for one row, as the name of its folder.
PartitionName(kind, row) ==
    IF kind = "housing" THEN IsoDateStr(row.timestamp) ELSE DateStr(row.partition_date)

\* The rows of one group, in the order of the DataFrame.
RECURSIVE GroupRows(_, _, _)
GroupRows(kind, rows, name) ==
    IF rows = <<>> THEN <<>>
    ELSE (IF PartitionName(kind, Head(rows)) = name THEN <<Head(rows)>> ELSE <<>>)
         \o GroupRows(kind, Tail(rows), name)

\* The path of the file written for one group.
PartitionPath(kind, output_dir, name) ==
    <<output_dir, name, "data-", name, IF kind = "housing" THEN ".csv" ELSE ".parquet">>

\* The calls: n_samples is an argument of the cc-application and loan generators
\* and the number of rows of housing.csv in the housing generator.
TabArgSets ==
    {a \in [kind : {"cc_application", "loan", "housing"},
            n_samples : 0..MaxSamples,
            past_days : 0..MaxPastDays,
            future_days : 0..MaxFutureDays,
            seed : 0..(RngModulus - 1),
            output_dir : {None, Some("out")}] :
        a.kind = "housing" => a.n_samples >= 1}

TabInit ==
    /\ AuditIdle
    /\ ConfigIdle
    /\ GenIdle
    /\ TxnIdle
    /\ OnbIdle
    /\ RaceIdle
    /\ ProfIdle
    /\ d_args \in TabArgSets
    /\ d_today = TabToday
    /\ d_pc = "start"
    /\ d_np = 0
    /\ d_timestamps = <<>>
    /\ d_df = None
    /\ d_files = <<>>

\* The draws made for one row between np.random.seed and the loop over the
\* timestamps: the noise and the correlation factor of the housing prediction;
\* thirteen feature, label and prediction draws in cc-application; sixteen in
\* the loan generator.
FeatureDraws(kind) ==
    CASE kind = "housing" -> 2
      [] kind = "cc_application" -> 13
      [] kind = "loan" -> 16

\* n draws as a map of the generator: one more draw after n - 1, or the map
\* of n / 2 draws taken twice.
RECURSIVE RngJump(_)
RngJump(n) ==
    IF n = 0 THEN [s \in 0..(RngModulus - 1) |-> s]
    ELSE IF n % 2 = 1 THEN [s \in 0..(RngModulus - 1) |-> RngStep(RngJump(n - 1)[s])]
    ELSE [s \in 0..(RngModulus - 1) |-> RngJump(n \div 2)[RngJump(n \div 2)[s]]]

\* The generator after n draws.
RngSteps(s, n) == RngJump(n)[s]

\* generate_dataset up to the loop over the rows: seeding and the feature
\* columns, whose draws advance the generator.
TabStart ==
    /\ d_pc = "start"
    /\ d_np' = RngSteps(np_random_seed(d_np, d_args.seed),
                        FeatureDraws(d_args.kind) * d_args.n_samples)
    /\ d_timestamps' = <<>>
    /\ d_pc' = "timestamps"
    /\ UNCHANGED <<d_args, d_today, d_df, d_files>>

\* One pass of the loop over range(n_samples).
TabTimestamp ==
    /\ d_pc = "timestamps"
    /\ Len(d_timestamps) < d_args.n_samples
    /\ LET r == RowTimestamp(d_np, DateMinus(d_today, d_args.past_days), Len(d_timestamps),
                             d_args.past_days + d_args.future_days + 1)
       IN /\ d_timestamps' = Append(d_timestamps, r.ts)
          /\ d_np' = r.np
    /\ UNCHANGED <<d_args, d_today, d_pc, d_df, d_files>>

\* After the loop: the timestamp and partition_date columns and the column
\* order; df.iloc[0] of the serialization check fails on an empty DataFrame in
\* the cc-application and loan generators.
TabFrame ==
    /\ d_pc = "timestamps"
    /\ Len(d_timestamps) >= d_args.n_samples
    /\ IF d_args.kind # "housing" /\ d_args.n_samples = 0
       THEN d_pc' = "failed" /\ UNCHANGED d_df
       ELSE /\ d_df' = Some([columns |-> FrameColumns(d_args.kind),
                             rows |-> [k \in 1..Len(d_timestamps) |->
                                          FrameRow(d_args.kind, k - 1, d_timestamps[k])]])
            /\ d_pc' = "built"
    /\ UNCHANGED <<d_args, d_today, d_np, d_timestamps, d_files>>

\* The partition files of df.groupby with an output_dir, and the return of df.
\* The housing generator groups by a column _partition_date that it drops
\* from each group and from df.
TabSave ==
    /\ d_pc = "built"
    /\ LET df == Val(d_df)
           names == {PartitionName(d_args.kind, df.rows[k]) : k \in 1..Len(df.rows)}
       IN d_files' =
            IF IsNone(d_args.output_dir) THEN d_files
            ELSE [f \in {PartitionPath(d_args.kind, Val(d_args.output_dir), n) :
                            n \in names} |->
                     [columns |-> df.columns,
                      rows |-> GroupRows(d_args.kind, df.rows, f[2])]]
    /\ d_pc' = "done"
    /\ UNCHANGED <<d_args, d_today, d_np, d_timestamps, d_df>>

TabNext ==
    \/ TabStart /\ UNCHANGED <<auditVars, configVars, genVars, txnVars, onbVars, raceVars, profVars>>
    \/ TabTimestamp /\ UNCHANGED <<auditVars, configVars, genVars, txnVars, onbVars, raceVars, profVars>>
    \/ TabFrame /\ UNCHANGED <<auditVars, configVars, genVars, txnVars, onbVars, raceVars, profVars>>
    \/ TabSave /\ UNCHANGED <<auditVars, configVars, genVars, txnVars, onbVars, raceVars, profVars>>

SpecTab == TabInit /\ [][TabNext]_vars

\* The calendar date of a timestamp of the DataFrame.
TimestampDate(kind, ts) ==
    IF kind = "housing"
    THEN [year |-> ts[1], month |-> Unpad2(ts[3]), day |-> Unpad2(ts[5])]
    ELSE ts.date

\* a is not after b in the calendar.
DateNotAfter(a, b) ==
    \/ a.year < b.year
    \/ a.year = b.year /\ a.month < b.month
    \/ a.year = b.year /\ a.month = b.month /\ a.day <= b.day

\* The rows of a finished run.
FrameRows == IF IsNone(d_df) THEN <<>> ELSE Val(d_df).rows

\* C12: in every generator, the housing generator included, the returned
\* DataFrame has a column partition_date, and with an output_dir every
\* partition file has that column with the name of its folder in every row.
C12_PartitionDateColumn ==
    d_pc = "done" =>
        /\ "partition_date" \in Range(Val(d_df).columns)
        /\ \A f \in DOMAIN d_files :
              /\ "partition_date" \in Range(d_files[f].columns)
              /\ \A k \in 1..Len(d_files[f].rows) :
                    DateStr(d_files[f].rows[k].partition_date) = f[2]

\* C13: with T = past_days + future_days + 1, row i (from 0) is dated
\* today - past_days + (i mod T), every date lies between today - past_days
\* and today + future_days, there are min(n_samples, T) distinct dates, and
\* each row is in the partition file of the date of its own timestamp and in
\* no other.
C13_RowDates ==
    d_pc = "done" =>
        LET kind == d_args.kind
            T == d_args.past_days + d_args.future_days + 1
            first == DateMinus(d_today, d_args.past_days)
            last == DatePlus(d_today, d_args.future_days)
            dateOf(k) == TimestampDate(kind, FrameRows[k].timestamp)
            dates == {dateOf(k) : k \in 1..Len(FrameRows)}
        IN /\ Len(FrameRows) = d_args.n_samples
           /\ \A k \in 1..Len(FrameRows) :
                 /\ dateOf(k) = DatePlus(first, (k - 1) % T)
                 /\ \E a \in 0..(T - 1) : dateOf(k) = DatePlus(first, a)
                 /\ DateNotAfter(first, dateOf(k))
                 /\ DateNotAfter(dateOf(k), last)
           /\ Cardinality(dates) = Min(d_args.n_samples, T)
           /\ ~IsNone(d_args.output_dir) =>
                 /\ \A k \in 1..Len(FrameRows) :
                       \A f \in DOMAIN d_files :
                           (\E j \in 1..Len(d_files[f].rows) :
                                d_files[f].rows[j].id = FrameRows[k].id)
                           <=> f[2] = DateStr(dateOf(k))
                 /\ \A k \in 1..Len(FrameRows) :
                       \E f \in DOMAIN d_files : f[2] = DateStr(dateOf(k))
                 /\ \A f \in DOMAIN d_files :
                       \A j \in 1..Len(d_files[f].rows) :
                           DateStr(TimestampDate(kind, d_files[f].rows[j].timestamp)) = f[2]

\* A run of each generator with more rows than days that wrote its files.
C13_Witness ==
    /\ d_pc = "done"
    /\ d_args.n_samples > d_args.past_days + d_args.future_days + 1
    /\ d_args.past_days = 1
    /\ d_args.future_days = 1
    /\ d_args.kind = "housing"
    /\ Cardinality(DOMAIN d_files) = 3

-----------------------------------------------------------------------------
(* script automation/onboarding/housing-price-onboarding.py,                *)
(* script automation/onboarding/jpmc-onboarding.py                          *)

JobStates == {"QUEUED", "RUNNING", "COMPLETED", "FAILED"}

\* The source names of the columns a schema inspection may infer.
OnbColumns == {"timestamp", "ts", "predicted_house_value"}

OnbConfigs ==
    [script : {"housing", "jpmc"},
     DATA_PLANE_ID : {"", "dp"},
     TIMESTAMP_COLUMN_NAME : {"timestamp", "ts"}]

\* The workspace: its number of data planes, whether a connector of the
\* configured name exists, whether post_connector succeeds, and the schema the
\* inspection leaves on the available dataset (None, or columns with their
\* tag hints).
OnbWorlds ==
    [data_planes : 0..1,
     connector_exists : BOOLEAN,
     post_connector_ok : BOOLEAN,
     dataset_schema : {None} \cup {Some([c \in cols |-> {}]) : cols \in SUBSET OnbColumns}]

\* A variant of the check of the job that accepts any state but QUEUED and RUNNING.
JobEnded(state) == state \notin {"QUEUED", "RUNNING"}

\* not (job.state != JobState.COMPLETED)
JobCompleted(state) == state = "COMPLETED"

\* The search of the schema for TIMESTAMP_COLUMN_NAME.
timestamp_found(schema, name) == name \in DOMAIN schema

\* The schema with PRIMARY_TIMESTAMP appended to the tag hints of the timestamp
\* column, and in the housing script PREDICTION to those of the prediction column.
UpdatedSchema(script, schema, name) ==
    [c \in DOMAIN schema |->
        IF c = name THEN schema[c] \cup {"PRIMARY_TIMESTAMP"}
        ELSE IF script = "housing" /\ c = "predicted_house_value"
             THEN schema[c] \cup {"PREDICTION"}
        ELSE schema[c]]

\* The column gen_aggregation_specs looks up first: TIMESTAMP_COLUMN_NAME in the
\* housing script, the literal "timestamp" in the jpmc script.
SpecsTimestampColumn(cfg) ==
    IF cfg.script = "housing" THEN cfg.TIMESTAMP_COLUMN_NAME ELSE "timestamp"

OnbInit ==
    /\ AuditIdle
    /\ ConfigIdle
    /\ GenIdle
    /\ TxnIdle
    /\ TabIdle
    /\ RaceIdle
    /\ ProfIdle
    /\ o_cfg \in OnbConfigs
    /\ o_world \in OnbWorlds
    /\ o_pc = "start"
    /\ o_calls = <<>>
    /\ o_job = None
    /\ o_polls = 0
    /\ o_schema = None
    /\ o_dataset = None

\* get_project and the data plane: the configured one, or the first of the
\* workspace; no data plane ends the script.
OnbProject ==
    /\ o_pc = "start"
    /\ o_calls' = o_calls \o <<"get_project",
                               IF o_cfg.DATA_PLANE_ID # "" THEN "get_data_plane"
                               ELSE "get_data_planes">>
    /\ o_pc' = IF o_world.data_planes = 0 THEN "failed" ELSE "connector"
    /\ UNCHANGED <<o_cfg, o_world, o_job, o_polls, o_schema, o_dataset>>

\* get_connectors, and post_connector when no connector of the name exists.
OnbConnector ==
    /\ o_pc = "connector"
    /\ IF o_world.connector_exists
       THEN /\ o_calls' = Append(o_calls, "get_connectors")
            /\ o_pc' = "available_dataset"
            /\ UNCHANGED o_world
       ELSE /\ o_calls' = o_calls \o <<"get_connectors", "post_connector">>
            /\ IF o_world.post_connector_ok
               THEN /\ o_world' = [o_world EXCEPT !.connector_exists = TRUE]
                    /\ o_pc' = "available_dataset"
               ELSE /\ o_pc' = "failed"
                    /\ UNCHANGED o_world
    /\ UNCHANGED <<o_cfg, o_job, o_polls, o_schema, o_dataset>>

OnbAvailableDataset ==
    /\ o_pc = "available_dataset"
    /\ o_calls' = Append(o_calls, "post_available_dataset")
    /\ o_pc' = "submit"
    /\ UNCHANGED <<o_cfg, o_world, o_job, o_polls, o_schema, o_dataset>>

\* post_submit_jobs_batch: the job comes back in any state.
OnbSubmitJob ==
    /\ o_pc = "submit"
    /\ o_calls' = Append(o_calls, "post_submit_jobs_batch")
    /\ \E state \in JobStates : o_job' = Some(state)
    /\ o_pc' = "poll"
    /\ UNCHANGED <<o_cfg, o_world, o_polls, o_schema, o_dataset>>

\* One pass of the polling loop: get_job while the job is QUEUED or RUNNING.
OnbPoll ==
    /\ o_pc = "poll"
    /\ Val(o_job) \in {"QUEUED", "RUNNING"}
    /\ o_calls' = Append(o_calls, "get_job")
    /\ o_polls' = o_polls + 1
    /\ \E state \in JobStates :
          /\ o_polls + 1 >= MaxPolls => state \in {"COMPLETED", "FAILED"}
          /\ o_job' = Some(state)
    /\ UNCHANGED <<o_cfg, o_world, o_pc, o_schema, o_dataset>>

\* After the loop: the check of the job's state, get_available_dataset, the
\* check of the schema and the search for the timestamp column.
OnbInspect ==
    /\ o_pc = "poll"
    /\ Val(o_job) \notin {"QUEUED", "RUNNING"}
    /\ IF ~JobCompleted(Val(o_job))
       THEN o_pc' = "failed" /\ UNCHANGED <<o_calls, o_schema>>
       ELSE /\ o_calls' = Append(o_calls, "get_available_dataset")
            /\ IF IsNone(o_world.dataset_schema)
               THEN o_pc' = "failed" /\ UNCHANGED o_schema
               ELSE IF ~timestamp_found(Val(o_world.dataset_schema),
                                        o_cfg.TIMESTAMP_COLUMN_NAME)
               THEN /\ o_pc' = "failed"
                    /\ o_schema' = o_world.dataset_schema
               ELSE /\ o_pc' = "dataset"
                    /\ o_schema' = Some(UpdatedSchema(o_cfg.script,
                                                      Val(o_world.dataset_schema),
                                                      o_cfg.TIMESTAMP_COLUMN_NAME))
    /\ UNCHANGED <<o_cfg, o_world, o_job, o_polls, o_dataset>>

OnbDataset ==
    /\ o_pc = "dataset"
    /\ o_calls' = Append(o_calls, "post_connector_dataset")
    /\ o_dataset' = Some([dataset_schema |-> Val(o_schema)])
    /\ o_pc' = "model"
    /\ UNCHANGED <<o_cfg, o_world, o_job, o_polls, o_schema>>

\* gen_aggregation_specs, which raises ValueError when the dataset lacks the
\* column it looks up, then post_model.
OnbModel ==
    /\ o_pc = "model"
    /\ IF SpecsTimestampColumn(o_cfg) \in DOMAIN Val(o_dataset).dataset_schema
       THEN /\ o_calls' = Append(o_calls, "post_model")
            /\ o_pc' = "schedule"
       ELSE /\ o_pc' = "failed"
            /\ UNCHANGED o_calls
    /\ UNCHANGED <<o_cfg, o_world, o_job, o_polls, o_schema, o_dataset>>

OnbSchedule ==
    /\ o_pc = "schedule"
    /\ o_calls' = Append(o_calls, "put_model_metrics_schedule")
    /\ o_pc' = "done"
    /\ UNCHANGED <<o_cfg, o_world, o_job, o_polls, o_schema, o_dataset>>

OnbNext ==
    \/ OnbProject /\ UNCHANGED <<auditVars, configVars, genVars, txnVars, tabVars, raceVars, profVars>>
    \/ OnbConnector /\ UNCHANGED <<auditVars, configVars, genVars, txnVars, tabVars, raceVars, profVars>>
    \/ OnbAvailableDataset /\ UNCHANGED <<auditVars, configVars, genVars, txnVars, tabVars, raceVars, profVars>>
    \/ OnbSubmitJob /\ UNCHANGED <<auditVars, configVars, genVars, txnVars, tabVars, raceVars, profVars>>
    \/ OnbPoll /\ UNCHANGED <<auditVars, configVars, genVars, txnVars, tabVars, raceVars, profVars>>
    \/ OnbInspect /\ UNCHANGED <<auditVars, configVars, genVars, txnVars, tabVars, raceVars, profVars>>
    \/ OnbDataset /\ UNCHANGED <<auditVars, configVars, genVars, txnVars, tabVars, raceVars, profVars>>
    \/ OnbModel /\ UNCHANGED <<auditVars, configVars, genVars, txnVars, tabVars, raceVars, profVars>>
    \/ OnbSchedule /\ UNCHANGED <<auditVars, configVars, genVars, txnVars, tabVars, raceVars, profVars>>

SpecOnb == OnbInit /\ [][OnbNext]_vars

\* The place of a call in the order of the onboarding (0 for a call that only reads).
StageOf(call) ==
    CASE call \in {"get_connectors", "post_connector"} -> 1
      [] call = "post_available_dataset" -> 2
      [] call = "post_submit_jobs_batch" -> 3
      [] call = "post_connector_dataset" -> 4
      [] call = "post_model" -> 5
      [] call = "put_model_metrics_schedule" -> 6
      [] OTHER -> 0

Called(call) == \E k \in 1..Len(o_calls) : o_calls[k] = call

\* C15: the calls for the connector, the available dataset, the schema
\* inspection job, the dataset, the model and the refresh schedule occur in
\* that order, each stage at most once and none without the stage before it;
\* post_connector_dataset, post_model and put_model_metrics_schedule are called
\* only when the job ended COMPLETED and the inferred schema is present and
\* has the configured timestamp column.
C15_OnboardingOrder ==
    /\ \A k \in 1..Len(o_calls) : \A l \in 1..Len(o_calls) :
          (k < l /\ StageOf(o_calls[k]) > 0 /\ StageOf(o_calls[l]) > 0)
              => \/ StageOf(o_calls[k]) < StageOf(o_calls[l])
                 \/ o_calls[k] = "get_connectors" /\ o_calls[l] = "post_connector"
    /\ \A l \in 1..Len(o_calls) :
          StageOf(o_calls[l]) > 1
              => \E k \in 1..(l - 1) : StageOf(o_calls[k]) = StageOf(o_calls[l]) - 1
    /\ \A call \in {"get_connectors", "post_connector", "post_available_dataset",
                    "post_submit_jobs_batch", "post_connector_dataset", "post_model",
                    "put_model_metrics_schedule"} :
          Cardinality({k \in 1..Len(o_calls) : o_calls[k] = call}) <= 1
    /\ (Called("post_connector_dataset") \/ Called("post_model")
            \/ Called("put_model_metrics_schedule"))
          => /\ o_job = Some("COMPLETED")
             /\ ~IsNone(o_world.dataset_schema)
             /\ o_cfg.TIMESTAMP_COLUMN_NAME \in DOMAIN Val(o_world.dataset_schema)

\* A finished onboarding that created the connector and polled the job.
C15_Witness ==
    /\ o_pc = "done"
    /\ Called("post_connector")
    /\ Called("get_job")
    /\ Called("put_model_metrics_schedule")

\* An onboarding that ended at the check of the job, before any dataset.
C15_WitnessJobFailed ==
    /\ o_pc = "failed"
    /\ o_job = Some("FAILED")
    /\ ~IsNone(o_world.dataset_schema)
    /\ Called("post_submit_jobs_batch")
    /\ ~Called("post_connector_dataset")

-----------------------------------------------------------------------------
(* The metric-configuration scripts beside another client of the same model; *)
(* script automation/onboarding/add-prediction-stats-metrics.py              *)

\* gen_aggregation_specs of add-prediction-stats-metrics: None stands for the
\* ValueError of a missing prediction or timestamp column.
gen_prediction_stats(ds, cols) ==
    IF ~HasCol(cols, "prediction") \/ ~HasCol(cols, "timestamp") THEN None
    ELSE LET pred == column_id_from_col_name(cols, "prediction")
             ts == column_id_from_col_name(cols, "timestamp")
         IN Some(PerColumn("0f", ds, ts, "numeric_col", <<pred>>)
                 \o PerColumn("0d", ds, ts, "numeric_col", <<pred>>))

\* The loop over new_aggs: those whose aggregation_id the model did not have
\* are appended to model.metric_config.aggregation_specs.
IncludeNew(existing, new_aggs) ==
    LET agg_ids == {existing[k].aggregation_id : k \in 1..Len(existing)}
        is_new(agg) == agg.aggregation_id \notin agg_ids
    IN existing \o SelectSeq(new_aggs, is_new)

\* The specs another client may add: custom aggregations that no script builds.
OtherSpecs ==
    { AggSpec("c9", "custom", "1", <<Arg("dataset", "D1"), Arg("timestamp_col", "a1")>>),
      AggSpec("c8", "custom", "1", <<Arg("dataset", "D2"), Arg("timestamp_col", "a2")>>) }

StatsInit ==
    /\ AuditIdle
    /\ GenIdle
    /\ TxnIdle
    /\ TabIdle
    /\ OnbIdle
    /\ RaceIdle
    /\ ProfIdle
    /\ c_script = "add_prediction_stats"
    /\ world \in AddWorlds("add_custom")
    /\ srv_specs \in
          LET g == IF world.datasets = <<>> THEN None
                   ELSE gen_prediction_stats(world.datasets[1], world.schema[world.datasets[1]])
              other == Builtin("0a", <<Arg("dataset", "D2"), Arg("timestamp_col", "a2")>>)
          IN IF IsNone(g) THEN {<<>>, <<other>>}
             ELSE {<<>>, <<other>>, SubSeq(Val(g), 1, 1), Val(g), Val(g) \o <<other>>}
    /\ c_old = <<>>
    /\ c_mapping = <<>>
    /\ srv_specs0 = srv_specs
    /\ c_pc = "get_model"
    /\ c_model = <<>>
    /\ c_new = <<>>
    /\ c_all = <<>>
    /\ c_valid = TRUE
    /\ c_response = <<>>
    /\ c_puts = 0

\* The runs of the add-* scripts and of add-prediction-stats-metrics.
RaceInit == (ConfigInit /\ c_script # "duplicate") \/ StatsInit

\* add-prediction-stats-metrics from the dataset check to the list it will send.
StatsCompute ==
    /\ c_pc = "compute"
    /\ c_script = "add_prediction_stats"
    /\ IF world.datasets = <<>>
       THEN c_pc' = "failed" /\ UNCHANGED <<c_new, c_all>>
       ELSE LET ds == world.datasets[1]
                gen == gen_prediction_stats(ds, world.schema[ds])
            IN IF IsNone(gen)
               THEN c_pc' = "failed" /\ UNCHANGED <<c_new, c_all>>
               ELSE /\ c_new' = Val(gen)
                    /\ c_all' = IncludeNew(c_model, Val(gen))
                    /\ c_pc' = "put"
    /\ UNCHANGED <<srv_specs, srv_specs0, world, c_script, c_old, c_mapping, c_model,
                   c_valid, c_response, c_puts>>

\* add-prediction-stats-metrics: put_model_metric_config, without a prompt.
StatsPut ==
    /\ c_pc = "put"
    /\ c_puts' = c_puts + 1
    /\ \E ok \in BOOLEAN :
         IF ok THEN srv_specs' = c_all /\ c_pc' = "applied"
         ELSE c_pc' = "failed" /\ UNCHANGED srv_specs
    /\ UNCHANGED <<srv_specs0, world, c_script, c_old, c_mapping, c_model, c_new, c_all,
                   c_valid, c_response>>

\* Another client adds one spec to the model while the script runs.
OtherClientAdds ==
    /\ x_added = <<>>
    /\ c_pc \in {"get_model", "compute", "prompt", "put"}
    /\ \E spec \in OtherSpecs :
         /\ srv_specs' = Append(srv_specs, spec)
         /\ x_added' = Append(x_added, [spec |-> spec, at |-> c_pc])
    /\ UNCHANGED <<srv_specs0, world, c_script, c_old, c_mapping, c_pc, c_model, c_new,
                   c_all, c_valid, c_response, c_puts>>

RaceNext ==
    \/ ConfigGetModel /\ UNCHANGED <<auditVars, genVars, txnVars, tabVars, onbVars, raceVars, profVars>>
    \/ AddCompute /\ UNCHANGED <<auditVars, genVars, txnVars, tabVars, onbVars, raceVars, profVars>>
    \/ ConfigAnswer /\ UNCHANGED <<auditVars, genVars, txnVars, tabVars, onbVars, raceVars, profVars>>
    \/ StatsCompute /\ UNCHANGED <<auditVars, genVars, txnVars, tabVars, onbVars, raceVars, profVars>>
    \/ StatsPut /\ UNCHANGED <<auditVars, genVars, txnVars, tabVars, onbVars, raceVars, profVars>>
    \/ OtherClientAdds /\ UNCHANGED <<auditVars, genVars, txnVars, tabVars, onbVars, profVars>>

SpecRace == RaceInit /\ [][RaceNext]_vars

\* The specs another client added after the script's get_model.
AddedAfterGetModel ==
    {x_added[k].spec : k \in {j \in 1..Len(x_added) : x_added[j].at # "get_model"}}

\* C16: the list a metric-config script sends is the one it built from its
\* snapshot of the model, so after its PUT the model holds exactly that list
\* and a spec another client added between the script's get_model and its
\* put_model_metric_config is not in the model.
C16_LostUpdate ==
    c_pc = "applied" =>
        /\ srv_specs = c_all
        /\ \A k \in 1..Len(c_all) : c_all[k] \in Range(c_model) \cup Range(c_new)
        /\ \A spec \in AddedAfterGetModel : spec \notin Range(srv_specs)

\* add-custom-aggregations applied after another client added a spec while it
\* waited at the prompt.
C16_Witness ==
    /\ c_pc = "applied"
    /\ c_script = "add_custom"
    /\ \E k \in 1..Len(x_added) : x_added[k].at = "prompt"
    /\ AddedAfterGetModel # {}
    /\ AddedAfterGetModel \cap Range(srv_specs) = {}

\* add-prediction-stats-metrics applied after another client added a spec
\* between its get_model and its PUT.
C16_WitnessStats ==
    /\ c_pc = "applied"
    /\ c_script = "add_prediction_stats"
    /\ AddedAfterGetModel # {}
    /\ AddedAfterGetModel \cap Range(srv_specs) = {}

-----------------------------------------------------------------------------
(* script automation/onboarding/create-regression-error-profile.py,         *)
(* scripts/onboarding/create-positive-class-error-profile.py                *)

\* A variant of the order of __main__ that looks the model up first.
MainStepsLookupFirst(script) == <<"lookup", "create", "attach">>

\* The order of __main__: the custom aggregation is created, then the model, its
\* dataset and its columns are looked up, then the aggregation is attached.
MainSteps(script) == <<"create", "lookup", "attach">>

\* The columns the scripts look up, in the order of the lookups.
LookupColumns(script) ==
    IF script = "regression"
    THEN <<"timestamp", "predicted_house_value", "actual_house_value">>
    ELSE <<"timestamp", "is_fraud", "fraud_pred">>

\* The name under which the script creates its custom aggregation.
ProfileName(script) ==
    IF script = "regression" THEN "regression_error_profile"
    ELSE "positive_class_error_profile"

\* The ids the workspace issues to custom aggregations, in the order issued.
CustomAggregationIds == <<"agg1", "agg2", "agg3", "agg4", "agg5", "agg6">>

\* post_custom_aggregation: the workspace with one more custom aggregation
\* under an id of its own.
post_custom_aggregation(workspace, name) ==
    Append(workspace, [id |-> CustomAggregationIds[Len(workspace) + 1], name |-> name,
                       latest_version |-> "1"])

\* The spec the script adds to the model.
new_aggregation(script, agg, ds) ==
    AggSpec(agg.id, "custom", agg.latest_version,
            IF script = "regression"
            THEN <<Arg("dataset", ds), Arg("timestamp_col", "timestamp"),
                   Arg("prediction_col", "predicted_house_value"),
                   Arg("ground_truth_col", "actual_house_value")>>
            ELSE <<Arg("dataset", ds), Arg("timestamp_col", "timestamp"),
                   Arg("ground_truth", "is_fraud"), Arg("prediction", "fraud_pred"),
                   Arg("threshold", "0.5")>>)

\* The model's datasets (none or one) and the columns of the first.
ProfWorlds(script) ==
    [datasets : {<<>>, <<"D1">>}, columns : SUBSET Range(LookupColumns(script))]

ProfInit ==
    /\ AuditIdle
    /\ ConfigIdle
    /\ GenIdle
    /\ TxnIdle
    /\ TabIdle
    /\ OnbIdle
    /\ RaceIdle
    /\ p_script \in {"regression", "positive_class"}
    /\ p_world \in ProfWorlds(p_script)
    /\ p_workspace = <<>>
    /\ p_specs \in {<<>>, <<Builtin("0a", <<Arg("dataset", "D1"),
                                            Arg("timestamp_col", "timestamp")>>)>>}
    /\ p_step = 1
    /\ p_pc = "running"
    /\ p_agg = None
    /\ p_model = None
    /\ p_calls = <<>>
    /\ p_runs = <<None>>

\* The end of a step: the next one, or the end of the script.
ProfAdvance ==
    IF p_step < Len(MainSteps(p_script))
    THEN p_step' = p_step + 1 /\ p_pc' = "running"
    ELSE p_step' = p_step /\ p_pc' = "done"

\* The creation of the custom aggregation.
ProfCreate ==
    /\ p_pc = "running"
    /\ MainSteps(p_script)[p_step] = "create"
    /\ p_workspace' = post_custom_aggregation(p_workspace, ProfileName(p_script))
    /\ p_agg' = Some(p_workspace'[Len(p_workspace')])
    /\ p_runs' = [p_runs EXCEPT ![Len(p_runs)] = Some(p_workspace'[Len(p_workspace')].id)]
    /\ p_calls' = Append(p_calls, "post_custom_aggregation")
    /\ ProfAdvance
    /\ UNCHANGED <<p_script, p_world, p_specs, p_model>>

\* get_model, the check of model.datasets, get_dataset and the three column
\* lookups; a model without dataset or a missing column raises ValueError.
ProfLookup ==
    /\ p_pc = "running"
    /\ MainSteps(p_script)[p_step] = "lookup"
    /\ IF p_world.datasets = <<>>
       THEN /\ p_calls' = Append(p_calls, "get_model")
            /\ p_pc' = "failed"
            /\ UNCHANGED <<p_step, p_model>>
       ELSE /\ p_calls' = p_calls \o <<"get_model", "get_dataset">>
            /\ IF Range(LookupColumns(p_script)) \subseteq p_world.columns
               THEN /\ p_model' = Some([aggregation_specs |-> p_specs,
                                        dataset |-> p_world.datasets[1]])
                    /\ ProfAdvance
               ELSE /\ p_pc' = "failed"
                    /\ UNCHANGED <<p_step, p_model>>
    /\ UNCHANGED <<p_script, p_world, p_workspace, p_specs, p_agg, p_runs>>

\* The test for the aggregation in the model as read, and
\* put_model_metric_config with the list read plus the new spec.
ProfAttach ==
    /\ p_pc = "running"
    /\ MainSteps(p_script)[p_step] = "attach"
    /\ LET model == Val(p_model)
           agg == Val(p_agg)
           aggregation_exists ==
               \E k \in 1..Len(model.aggregation_specs) :
                   model.aggregation_specs[k].aggregation_id = agg.id
       IN IF aggregation_exists
          THEN UNCHANGED <<p_specs, p_calls>>
          ELSE /\ p_specs' = model.aggregation_specs
                               \o <<new_aggregation(p_script, agg, model.dataset)>>
               /\ p_calls' = Append(p_calls, "put_model_metric_config")
    /\ ProfAdvance
    /\ UNCHANGED <<p_script, p_world, p_workspace, p_agg, p_model, p_runs>>

\* The script is run again, on the workspace and the model as they are, after
\* the model's dataset may have been changed.
ProfRerun ==
    /\ p_pc \in {"done", "failed"}
    /\ Len(p_runs) < MaxRuns
    /\ p_world' \in ProfWorlds(p_script)
    /\ p_step' = 1
    /\ p_pc' = "running"
    /\ p_agg' = None
    /\ p_model' = None
    /\ p_calls' = <<>>
    /\ p_runs' = Append(p_runs, None)
    /\ UNCHANGED <<p_script, p_workspace, p_specs>>

ProfNext ==
    \/ ProfCreate /\ UNCHANGED <<auditVars, configVars, genVars, txnVars, tabVars, onbVars, raceVars>>
    \/ ProfLookup /\ UNCHANGED <<auditVars, configVars, genVars, txnVars, tabVars, onbVars, raceVars>>
    \/ ProfAttach /\ UNCHANGED <<auditVars, configVars, genVars, txnVars, tabVars, onbVars, raceVars>>
    \/ ProfRerun /\ UNCHANGED <<auditVars, configVars, genVars, txnVars, tabVars, onbVars, raceVars>>

SpecProf == ProfInit /\ [][ProfNext]_vars

\* Whether this run has made the call.
ProfCalled(call) == \E k \in 1..Len(p_calls) : p_calls[k] = call

\* C17: both scripts create the custom aggregation before they look up the
\* model; when the lookup fails (no dataset, a missing column) the script has
\* ended with the new custom aggregation in the workspace, no spec of the
\* model referring to it and no put_model_metric_config call; and every run
\* adds a further custom aggregation to the workspace.
C17_CreatedBeforeLookup ==
    /\ ProfCalled("get_model") => p_calls[1] = "post_custom_aggregation"
    /\ (p_pc = "failed" /\ ProfCalled("get_model"))
          => /\ ~IsNone(p_agg)
             /\ \E k \in 1..Len(p_workspace) : p_workspace[k] = Val(p_agg)
             /\ \A k \in 1..Len(p_specs) : p_specs[k].aggregation_id # Val(p_agg).id
             /\ ~ProfCalled("put_model_metric_config")
    /\ p_pc \in {"done", "failed"}
          => /\ Len(p_workspace) = Len(p_runs)
             /\ \A k \in 1..Len(p_runs) : ~IsNone(p_runs[k])
             /\ \A k \in 1..Len(p_runs) : \A l \in 1..Len(p_runs) :
                   k # l => p_runs[k] # p_runs[l]
             /\ \A k \in 1..Len(p_runs) :
                   \E j \in 1..Len(p_workspace) : p_workspace[j].id = Val(p_runs[k])

\* A second run that failed at the lookup like the first, leaving two custom
\* aggregations that the model does not use.
C17_Witness ==
    /\ p_pc = "failed"
    /\ Len(p_runs) = 2
    /\ ProfCalled("get_dataset")
    /\ Len(p_workspace) = 2
    /\ \A k \in 1..Len(p_specs) : p_specs[k].aggregation_kind # "custom"

====
